---- MODULE Spec2Model ----
(***************************************************************************)
(* Work dashboard: branch key extraction, PR cache, reconciliation of      *)
(* tickets / PRs / local branches, and the client-side task metadata       *)
(* overlay (parent graph, visibility).                                     *)
(*                                                                         *)
(* Text is modelled as a sequence of one-character strings, so that case   *)
(* folding, splitting and pattern matching are computed, not assumed.      *)
(***************************************************************************)
EXTENDS Integers, Sequences, FiniteSets, TLC

VARIABLES
    branchName,          \* githubService: argument of extractTaskKeyFromBranch
    taskKey,             \* githubService: its result (Unset before the call)
    storage,             \* jiraMetadataService: localStorage['jira-task-metadata']
    metadata,            \* useJiraMetadata: the React state of the hook
    lastJiraUpdate,      \* the fetched tasks: task id -> lastJiraUpdate
    browserClock,        \* new Date() in the browser, in ms
    visible,             \* the rendered view: task id -> shouldTaskBeVisible
    dropEvent,           \* JiraTaskCard: the last drop handled and its outcome
    githubToken,         \* githubService: GITHUB_TOKEN is configured
    serverClock,         \* Date.now() on the server, in ms
    cachedPRs,           \* workService: cachedPRs
    cachedPRsTimestamp,  \* workService: cachedPRsTimestamp
    cachedActiveRepos,   \* githubService: cachedActiveRepos
    cachedActiveReposTimestamp, \* githubService: cachedActiveReposTimestamp
    calls,               \* the getTasksWithPRs calls in flight and their locals
    response,            \* the last response of GET /api/dashboard
    localRepos,          \* the git clones on disk, in the order findGitRepositories finds them
    tasksWithBranches,   \* the last response of POST /api/dashboard
    pull,                \* githubService: one PR as the GitHub API holds it, with its reviews
    prRecord,            \* githubService: the GitHubPR record fetchPRsFromRepo builds for it
    taskList,            \* useJiraMetadata: the tasks the hook is given
    view,                \* Dashboard: the lists the last render computed
    polledTasks,         \* useJiraPolling: the tasks state of the hook
    jiraHasChanges,      \* useJiraPolling: the change indicator
    loading,             \* Dashboard: the first load has not finished
    localBranchesRequest, \* Dashboard: the POST in flight and the tasks it was sent
    prStorage,           \* jiraMetadataService: localStorage['pull-request-metadata']
    prMetadata,          \* usePRMetadata: the React state of the hook of each task card
    jiraFetch,           \* jiraService: the locals of fetchJiraTasks and its result
    timers,              \* the setInterval timers of useJiraPolling and useReviewInbox
    gitRepo              \* local-git route: the branches of one clone on disk

keyVars == <<branchName, taskKey>>

metaVars == <<storage, metadata, lastJiraUpdate, browserClock, visible, dropEvent>>

serverVars == <<githubToken, serverClock, cachedPRs, cachedPRsTimestamp, cachedActiveRepos,
                cachedActiveReposTimestamp, calls, response, localRepos, tasksWithBranches>>

reviewVars == <<pull, prRecord>>

\* the state of the parts modelled further below
listVars == <<taskList, view>>

pollVars == <<polledTasks, jiraHasChanges, loading, localBranchesRequest>>

prVars == <<prStorage, prMetadata>>

moreVars == <<jiraFetch, timers, gitRepo>>

pageVars == <<reviewVars, listVars, pollVars, prVars, moreVars>>

vars == <<branchName, taskKey, storage, metadata, lastJiraUpdate, browserClock,
          visible, dropEvent, githubToken, serverClock, cachedPRs, cachedPRsTimestamp,
          cachedActiveRepos, cachedActiveReposTimestamp, calls, response, localRepos,
          tasksWithBranches, pull, prRecord, taskList, view, polledTasks, jiraHasChanges,
          loading, localBranchesRequest, prStorage, prMetadata, jiraFetch, timers, gitRepo>>

\* undefined of the source, for a text value (a one-token sequence that is no text)
None == <<"undefined">>

\* a result that has not been computed yet
Unset == <<"unset">>

\* no PR is being mapped
NoPull == [state |-> "none"]

NoRecord == [reviewStatus |-> "unset"]

ReviewIdle == pull = NoPull /\ prRecord = NoRecord

\* nothing rendered yet
NoView == [rendered |-> FALSE, mounted |-> FALSE, all |-> <<>>, roots |-> <<>>]

ListIdle == taskList = <<>> /\ view = NoView

\* no POST /api/dashboard is in flight
NoRequest == [pending |-> FALSE, tasks |-> <<>>]

\* useJiraPolling([], loading) before the first load
PollIdle ==
    /\ polledTasks = <<>>
    /\ jiraHasChanges = FALSE
    /\ loading = TRUE
    /\ localBranchesRequest = NoRequest

PRIds == {101, 102}

\* no entry for the PR id
AbsentPR == [present |-> FALSE, hidden |-> FALSE, localGitStatus |-> "undefined"]

\* the task cards that show a PR; each calls usePRMetadata
PRCards == {1, 2}

\* nothing stored for any PR
PRIdle ==
    /\ prStorage = [p \in PRIds |-> AbsentPR]
    /\ prMetadata = [card \in PRCards |-> [p \in PRIds |-> AbsentPR]]

\* fetchJiraTasks has not been called
NoJiraFetch ==
    [pc |-> "idle", query |-> 0, startAt |-> 0, upstream |-> [total |-> 0, kind |-> "tasks"],
     allIssues |-> <<>>, result |-> <<>>, returnedAt |-> "none"]

\* no interval has been set
NoTimers ==
    [pc |-> "idle", now |-> 0, refreshing |-> FALSE,
     jiraSetAt |-> 0, jiraNext |-> 0, jiraChecks |-> 0,
     reviewSetAt |-> 0, reviewNext |-> 0, reviewFetches |-> 0, lastPRCount |-> 0]

\* no clone is looked at
NoGitRepo ==
    [pc |-> "idle", branches |-> {}, current |-> "HEAD", originHead |-> "",
     originBranches |-> {}, blocked |-> FALSE, guess |-> TRUE,
     result |-> [branchName |-> "", success |-> FALSE, message |-> ""]]

MoreIdle == jiraFetch = NoJiraFetch /\ timers = NoTimers /\ gitRepo = NoGitRepo

PageIdle == ReviewIdle /\ ListIdle /\ PollIdle /\ PRIdle /\ MoreIdle

-----------------------------------------------------------------------------
(* Characters and strings *)

UpperLetters == <<"A","B","C","D","E","F","G","H","I","J","K","L","M",
                  "N","O","P","Q","R","S","T","U","V","W","X","Y","Z">>

LowerLetters == <<"a","b","c","d","e","f","g","h","i","j","k","l","m",
                  "n","o","p","q","r","s","t","u","v","w","x","y","z">>

Digits == {"0","1","2","3","4","5","6","7","8","9"}

Range(s) == {s[i] : i \in DOMAIN s}

IsUpperLetter(c) == c \in Range(UpperLetters)

IsLowerLetter(c) == c \in Range(LowerLetters)

\* [A-Za-z]
IsLetter(c) == IsUpperLetter(c) \/ IsLowerLetter(c)

\* \d
IsDigit(c) == c \in Digits

IndexIn(c, s) == CHOOSE i \in DOMAIN s : s[i] = c

LowerChar(c) == IF IsUpperLetter(c) THEN LowerLetters[IndexIn(c, UpperLetters)] ELSE c

UpperChar(c) == IF IsLowerLetter(c) THEN UpperLetters[IndexIn(c, LowerLetters)] ELSE c

\* String.prototype.toLowerCase
toLowerCase(s) == [i \in DOMAIN s |-> LowerChar(s[i])]

\* String.prototype.toUpperCase
toUpperCase(s) == [i \in DOMAIN s |-> UpperChar(s[i])]

\* s.substring(i-1, j) with 1-based inclusive bounds; empty when j < i
Sub(s, i, j) == IF j < i THEN <<>> ELSE SubSeq(s, i, j)

\* the literal w occurs in s at position i, ignoring case (the /i flag)
MatchesAtCI(s, i, w) ==
    /\ i >= 1
    /\ i + Len(w) - 1 <= Len(s)
    /\ toLowerCase(Sub(s, i, i + Len(w) - 1)) = toLowerCase(w)

\* length of the longest run of characters of class P (as a set) from position i
RECURSIVE RunLen(_, _, _)
RunLen(s, i, P) ==
    IF i <= Len(s) /\ s[i] \in P THEN 1 + RunLen(s, i + 1, P) ELSE 0

LetterSet == Range(UpperLetters) \cup Range(LowerLetters)

-----------------------------------------------------------------------------
(* githubService.extractTaskKeyFromBranch *)

\* [A-Za-z]+-\d+(?:_|$) anchored at position j: index of the last digit of
\* the match, or 0 when there is no match.  Both + are greedy and cannot
\* give back characters: the character after a shorter run is still a
\* letter (not "-") or still a digit (neither "_" nor the end).
KeyEndAt(s, j) ==
    LET L == RunLen(s, j, LetterSet)
        d == j + L
        D == RunLen(s, d + 1, Digits)
        e == d + D
    IN  IF /\ L >= 1
           /\ d <= Len(s) /\ s[d] = "-"
           /\ D >= 1
           /\ (e = Len(s) \/ s[e + 1] = "_")
        THEN e ELSE 0

Min(S) == CHOOSE x \in S : \A y \in S : x <= y

BranchKeywords == { <<"f","e","a","t","u","r","e">>, <<"b","u","g","f","i","x">>,
                    <<"h","o","t","f","i","x">>, <<"r","e","l","e","a","s","e">> }

ProjectKeywords == { <<"R","O","C">>, <<"P","R","O","J">>, <<"J","I","R","A">> }

\* Pattern 1: /(?:feature|bugfix|hotfix|release)\/([A-Za-z]+-\d+)(?:_|$)/i
\* capture group 1 of the leftmost match, or None
Pattern1(s) ==
    LET Starts == { i \in 1..Len(s) : \E w \in BranchKeywords :
                        /\ MatchesAtCI(s, i, w)
                        /\ i + Len(w) <= Len(s) /\ s[i + Len(w)] = "/"
                        /\ KeyEndAt(s, i + Len(w) + 1) # 0 }
    IN  IF Starts = {} THEN None
        ELSE LET i == Min(Starts)
                 w == CHOOSE k \in BranchKeywords :
                          /\ MatchesAtCI(s, i, k)
                          /\ i + Len(k) <= Len(s) /\ s[i + Len(k)] = "/"
                          /\ KeyEndAt(s, i + Len(k) + 1) # 0
                 j == i + Len(w) + 1
             IN  Sub(s, j, KeyEndAt(s, j))

\* Pattern 2: /([A-Za-z]+-\d+)(?:_|$)/i
Pattern2(s) ==
    LET Starts == { j \in 1..Len(s) : KeyEndAt(s, j) # 0 }
    IN  IF Starts = {} THEN None
        ELSE Sub(s, Min(Starts), KeyEndAt(s, Min(Starts)))

\* Pattern 3: /(?:ROC|PROJ|JIRA)-(\d+)/i
Pattern3(s) ==
    LET Starts == { i \in 1..Len(s) : \E w \in ProjectKeywords :
                        /\ MatchesAtCI(s, i, w)
                        /\ i + Len(w) <= Len(s) /\ s[i + Len(w)] = "-"
                        /\ RunLen(s, i + Len(w) + 1, Digits) >= 1 }
    IN  IF Starts = {} THEN None
        ELSE LET i == Min(Starts)
                 w == CHOOSE k \in ProjectKeywords :
                          /\ MatchesAtCI(s, i, k)
                          /\ i + Len(k) <= Len(s) /\ s[i + Len(k)] = "-"
                          /\ RunLen(s, i + Len(k) + 1, Digits) >= 1
                 j == i + Len(w) + 1
             IN  Sub(s, j, j + RunLen(s, j, Digits) - 1)

\* /^\d+$/.test(k)
IsAllDigits(k) == Len(k) >= 1 /\ \A i \in DOMAIN k : IsDigit(k[i])

\* the default project prefix of the source
RocPrefix == <<"R","O","C","-">>

\* what the loop body returns for one match
KeyOfMatch(k) == IF IsAllDigits(k) THEN RocPrefix \o k ELSE toUpperCase(k)

\* for (const pattern of patterns) ... first match wins
extractTaskKeyFromBranch(s) ==
    IF Pattern1(s) # None THEN KeyOfMatch(Pattern1(s))
    ELSE IF Pattern2(s) # None THEN KeyOfMatch(Pattern2(s))
    ELSE IF Pattern3(s) # None THEN KeyOfMatch(Pattern3(s))
    ELSE None

-----------------------------------------------------------------------------
(* jiraMetadataService: the persisted task metadata store *)

\* number of tasks on the dashboard
NumTasks == 3

TaskIds == 1..NumTasks

\* parentTaskId: undefined
NoParent == 0

Minute == 60 * 1000

\* an ISO-8601 timestamp with a UTC offset, as Jira's fields.updated and
\* Date.prototype.toISOString produce them; wall and off are in ms
Iso(w, o) == [defined |-> TRUE, wall |-> w, off |-> o]

\* a timestamp that is undefined
NoDate == [defined |-> FALSE, wall |-> 0, off |-> 0]

\* new Date(s).getTime()
getTime(s) == s.wall - s.off

\* new Date(ms).toISOString(): always UTC
toISOString(ms) == Iso(ms, 0)

\* no entry for the task id in the stored record
Absent == [present |-> FALSE, parentTaskId |-> NoParent, hiddenStatus |-> "",
           hiddenUntilUpdatedDate |-> NoDate, childTasksExpanded |-> "undefined"]

\* { id: taskId, hiddenStatus: 'visible' }
DefaultMetadata == [present |-> TRUE, parentTaskId |-> NoParent, hiddenStatus |-> "visible",
                    hiddenUntilUpdatedDate |-> NoDate, childTasksExpanded |-> "undefined"]

\* { ...a, ...updates }: the fields named in updates replace those of a
Merge(a, updates) ==
    [f \in DOMAIN a |-> IF f \in DOMAIN updates THEN updates[f] ELSE a[f]]

\* getAllJiraMetadata: parse the stored record; a missing hiddenStatus reads as 'visible'
getAllJiraMetadata(store) ==
    [t \in DOMAIN store |->
        IF store[t].present
        THEN [store[t] EXCEPT !.hiddenStatus = IF @ = "" THEN "visible" ELSE @]
        ELSE store[t]]

getJiraTaskMetadata(store, taskId) ==
    LET allMetadata == getAllJiraMetadata(store)
    IN  IF allMetadata[taskId].present THEN allMetadata[taskId] ELSE DefaultMetadata

saveJiraTaskMetadata(store, taskId, md) ==
    [getAllJiraMetadata(store) EXCEPT ![taskId] = md]

\* the update ignores what the entry holds
updateJiraTaskMetadata_fromDefault(store, taskId, updates) ==
    saveJiraTaskMetadata(store, taskId, Merge(DefaultMetadata, updates))

updateJiraTaskMetadata(store, taskId, updates) ==
    saveJiraTaskMetadata(store, taskId, Merge(getJiraTaskMetadata(store, taskId), updates))

\* hideTask that leaves the date of an earlier hideTaskUntilUpdated
hideTask_keepsDate(store, taskId) ==
    updateJiraTaskMetadata(store, taskId, [hiddenStatus |-> "hidden"])

setTaskParent(store, taskId, parentTaskId) ==
    updateJiraTaskMetadata(store, taskId, [parentTaskId |-> parentTaskId])

hideTask(store, taskId) ==
    updateJiraTaskMetadata(store, taskId,
        [hiddenStatus |-> "hidden", hiddenUntilUpdatedDate |-> NoDate])

hideTaskUntilUpdated(store, taskId, now) ==
    updateJiraTaskMetadata(store, taskId,
        [hiddenStatus |-> "hiddenUntilUpdated", hiddenUntilUpdatedDate |-> toISOString(now)])

showTask(store, taskId) ==
    updateJiraTaskMetadata(store, taskId,
        [hiddenStatus |-> "visible", hiddenUntilUpdatedDate |-> NoDate])

\* the while loop of wouldCreateLoop: follow the parent chain from currentParent
RECURSIVE FollowParentChain(_, _, _)
FollowParentChain(allMetadata, taskId, currentParent) ==
    IF currentParent = NoParent THEN FALSE
    ELSE IF currentParent = taskId THEN TRUE
    ELSE FollowParentChain(allMetadata, taskId, allMetadata[currentParent].parentTaskId)

wouldCreateLoop_selfOnly(store, taskId, newParentId) == taskId = newParentId

wouldCreateLoop_oneLevel(store, taskId, newParentId) ==
    \/ taskId = newParentId
    \/ getAllJiraMetadata(store)[newParentId].parentTaskId = taskId

wouldCreateLoop(store, taskId, newParentId) ==
    IF taskId = newParentId THEN TRUE
    ELSE FollowParentChain(getAllJiraMetadata(store), taskId, newParentId)

shouldTaskBeVisible_inclusive(taskLastJiraUpdate, md) ==
    IF md.hiddenStatus = "visible" THEN TRUE
    ELSE IF md.hiddenStatus = "hidden" THEN FALSE
    ELSE IF md.hiddenStatus = "hiddenUntilUpdated" THEN
        IF ~taskLastJiraUpdate.defined THEN TRUE
        ELSE IF ~md.hiddenUntilUpdatedDate.defined THEN TRUE
        ELSE getTime(taskLastJiraUpdate) >= getTime(md.hiddenUntilUpdatedDate)
    ELSE TRUE

shouldTaskBeVisible_failClosed(taskLastJiraUpdate, md) ==
    IF md.hiddenStatus = "visible" THEN TRUE
    ELSE IF md.hiddenStatus = "hiddenUntilUpdated" THEN
        IF ~taskLastJiraUpdate.defined THEN TRUE
        ELSE IF ~md.hiddenUntilUpdatedDate.defined THEN TRUE
        ELSE getTime(taskLastJiraUpdate) > getTime(md.hiddenUntilUpdatedDate)
    ELSE FALSE

shouldTaskBeVisible(taskLastJiraUpdate, md) ==
    IF md.hiddenStatus = "visible" THEN TRUE
    ELSE IF md.hiddenStatus = "hidden" THEN FALSE
    ELSE IF md.hiddenStatus = "hiddenUntilUpdated" THEN
        IF ~taskLastJiraUpdate.defined THEN TRUE
        ELSE IF ~md.hiddenUntilUpdatedDate.defined THEN TRUE
        ELSE getTime(taskLastJiraUpdate) > getTime(md.hiddenUntilUpdatedDate)
    ELSE TRUE

-----------------------------------------------------------------------------
(* useJiraMetadata: the hook state and what it renders *)

\* { id: taskId, hiddenStatus: 'visible', childTasksExpanded: true, ... }: the
\* default of the hook (pullRequestsExpanded goes as childTasksExpanded does)
HookDefaultMetadata == [DefaultMetadata EXCEPT !.childTasksExpanded = "true"]

\* metadata[task.id] || { id: task.id, hiddenStatus: 'visible', ... }
MetadataOrDefault(md, taskId) ==
    IF md[taskId].present THEN md[taskId] ELSE HookDefaultMetadata

\* updateMetadata, first half: updateJiraTaskMetadata(taskId, updates)
\* updateMetadata, second half: setMetadata(prev => ...)
setMetadata(prev, taskId, updates) ==
    [prev EXCEPT ![taskId] = Merge(MetadataOrDefault(prev, taskId), updates)]

\* the visibility every render computes (sortTasksByPriority, getTasksWithMetadata)
Render(md, updated) ==
    [t \in TaskIds |-> shouldTaskBeVisible(updated[t], MetadataOrDefault(md, t))]

NoDrop == [dragged |-> 0, target |-> 0, accepted |-> FALSE]

\* the overlay before any interaction: nothing stored, nothing hidden
MetaIdle ==
    /\ storage = [t \in TaskIds |-> Absent]
    /\ metadata = [t \in TaskIds |-> Absent]
    /\ lastJiraUpdate = [t \in TaskIds |-> NoDate]
    /\ browserClock = 0
    /\ visible = [t \in TaskIds |-> TRUE]
    /\ dropEvent = NoDrop

-----------------------------------------------------------------------------
(* githubService / workService on the server: the PR cache *)

\* CACHE_DURATION, in ms
CACHE_DURATION == 5 * 60 * 1000

\* ACTIVE_REPOS_CACHE_DURATION, in ms
ACTIVE_REPOS_CACHE_DURATION == 30 * 60 * 1000

RepoAV == <<"t","f","s","o","/","a","p","i","w","o","r","k","e","r","-","v","o","u","c","h","e","r">>

RepoWA == <<"t","f","s","o","/","w","e","b","s","i","t","e","-","a","c","c","o","u","n","t","i","n","g">>

RepoRL == <<"t","f","s","o","/","r","e","a","c","t","-","l","a","y","o","u","t","-","c","o","m","p","o","n","e","n","t","s">>

\* the same repository as a user may type it into ?repo=
RepoWAMixedCase == <<"T","F","S","O","/","W","e","b","s","i","t","e","-","A","c","c","o","u","n","t","i","n","g">>

\* ?repo=all
All == <<"a","l","l">>

\* refreshActiveReposCache: the whitelisted repositories
whitelistedRepos == <<RepoAV, RepoWA, RepoRL>>

RandomBranchName == <<"r","a","n","d","o","m","-","b","r","a","n","c","h","-","n","a","m","e">>

\* the pull requests GitHub can hold: pr.id, the repository, pr.head.ref
GitHubPulls ==
    << [id |-> 101, repo |-> RepoWA, branch |-> <<"f","e","a","t","u","r","e","/","A","B","C","-","1","_","f","i","x">>],
       [id |-> 102, repo |-> RepoWA, branch |-> RandomBranchName],
       [id |-> 201, repo |-> RepoAV, branch |-> <<"b","u","g","f","i","x","/","a","b","c","-","1","2","_","n","e","w">>] >>

PullIds == { GitHubPulls[i].id : i \in DOMAIN GitHubPulls }

\* the values of the repo query parameter
Selections == { None, All, RepoWA, RepoWAMixedCase, RepoAV }

\* the tickets Jira returns for the user: issue.id, issue.key
JiraTickets ==
    << [id |-> 1, key |-> <<"A","B","C","-","1">>],
       [id |-> 2, key |-> <<"A","B","C","-","1","2">>] >>

\* fetchPRsFromRepo: GET /repos/{repoFullName}/pulls, where GitHub matches
\* the repository name ignoring case and currently serves the pulls in got;
\* a repository that does not exist (or a failed request) gives []
\* prs.map(pr => ({ ..., branch: pr.head.ref,
\*                    linkedTaskKey: extractTaskKeyFromBranch(pr.head.ref) }))
RECURSIVE MapPulls(_)
MapPulls(pulls) ==
    IF Len(pulls) = 0 THEN <<>>
    ELSE << [id |-> Head(pulls).id,
             repo |-> Head(pulls).repo,
             branch |-> Head(pulls).branch,
             linkedTaskKey |-> extractTaskKeyFromBranch(Head(pulls).branch)] >>
         \o MapPulls(Tail(pulls))

\* every open pull request of GitHub as the mapping renders it
MappedPulls == MapPulls(GitHubPulls)

\* fetchPRsFromRepo(repoFullName): the open PRs GitHub serves for the repository
\* (the API resolves the name ignoring case), listed under the name as requested
fetchPRsFromRepo(repoFullName, got) ==
    LET Served(p) == /\ p.id \in got
                     /\ toLowerCase(p.repo) = toLowerCase(repoFullName)
        page == SelectSeq(MappedPulls, Served)
    IN  [i \in DOMAIN page |->
            [id |-> page[i].id,
             branch |-> page[i].branch,
             linkedTaskKey |-> page[i].linkedTaskKey,
             repository |-> repoFullName]]

\* results.forEach(prs => allPRs.push(...prs))
RECURSIVE Flatten(_)
Flatten(ss) == IF Len(ss) = 0 THEN <<>> ELSE Head(ss) \o Flatten(Tail(ss))

\* fetchPullRequests(repoFullName), with the active repositories it found
\* (after its refresh) and what GitHub serves
fetchPullRequests(hasToken, repoFullName, activeRepos, got) ==
    IF ~hasToken THEN <<>>
    ELSE IF repoFullName # None THEN fetchPRsFromRepo(repoFullName, got)
    ELSE Flatten([i \in DOMAIN activeRepos |-> fetchPRsFromRepo(activeRepos[i], got)])

\* selectedRepo && selectedRepo !== 'all'
IsRepoFilter(selectedRepo) == selectedRepo # None /\ selectedRepo # All

InCache(cache, selectedRepo) ==
    \E i \in DOMAIN cache : toLowerCase(cache[i].repository) = toLowerCase(selectedRepo)

shouldFetchPRs_inclusiveTTL(cache, timestamp, now, selectedRepo) ==
    \/ Len(cache) = 0
    \/ now - timestamp >= CACHE_DURATION
    \/ (IsRepoFilter(selectedRepo) /\ ~InCache(cache, selectedRepo))

\* const shouldFetchPRs = ...
shouldFetchPRs(cache, timestamp, now, selectedRepo) ==
    \/ Len(cache) = 0
    \/ now - timestamp > CACHE_DURATION
    \/ (IsRepoFilter(selectedRepo) /\ ~InCache(cache, selectedRepo))

callsFetch_ignoresRateLimit(should, isRateLimited, cache) == should

\* a rate-limited call never fetches
callsFetch_neverWhenLimited(should, isRateLimited, cache) == should /\ ~isRateLimited

\* the branches of getTasksWithPRs that call fetchPullRequests
callsFetch(should, isRateLimited, cache) ==
    \/ (should /\ ~isRateLimited)
    \/ (isRateLimited /\ Len(cache) = 0)

\* the cached PRs a call uses when it does not fetch
servedFromCache(cache, selectedRepo) ==
    IF IsRepoFilter(selectedRepo)
    THEN LET InRepo(pr) == toLowerCase(pr.repository) = toLowerCase(selectedRepo)
         IN  SelectSeq(cache, InRepo)
    ELSE cache

-----------------------------------------------------------------------------
(* workService.getTasksWithPRs: joining tickets and pull requests *)

\* on the server there is no window: getAllJiraMetadata() returns {}
ServerMetadata == [t \in TaskIds |-> Absent]

\* getChildTasks(parentTaskId)
getChildTasks(allMetadata, parentTaskId) ==
    { t \in DOMAIN allMetadata : allMetadata[t].present
                                 /\ allMetadata[t].parentTaskId = parentTaskId }

\* the substring w occurs somewhere in s
Contains(s, w) == \E i \in 1..Len(s) : i + Len(w) - 1 <= Len(s) /\ Sub(s, i, i + Len(w) - 1) = w

isLinkedTo_containsKey(pr, task) ==
    /\ pr.linkedTaskKey # None
    /\ Contains(toLowerCase(pr.linkedTaskKey), toLowerCase(task.key))

\* pr.linkedTaskKey?.toLowerCase() === task.key.toLowerCase()
isLinkedTo(pr, task) ==
    /\ pr.linkedTaskKey # None
    /\ toLowerCase(pr.linkedTaskKey) = toLowerCase(task.key)

\* applyPRMetadata(allPRs.filter(...)): getPRMetadata gives { id, hidden: false }
linkedPRsOf(allPRs, task) ==
    LET Linked(pr) == isLinkedTo(pr, task)
        prs == SelectSeq(allPRs, Linked)
    IN  [i \in DOMAIN prs |->
            [id |-> prs[i].id, branch |-> prs[i].branch,
             linkedTaskKey |-> prs[i].linkedTaskKey,
             repository |-> prs[i].repository, hidden |-> FALSE]]

\* jiraTasks.map(task => ...)
tasksWithPRs(jiraTasks, allPRs, allMetadata) ==
    [i \in DOMAIN jiraTasks |->
        LET task == jiraTasks[i]
            childTaskIds == getChildTasks(allMetadata, task.id)
            IsChild(childTask) == childTask.id \in childTaskIds
            children == SelectSeq(jiraTasks, IsChild)
        IN  [id |-> task.id, key |-> task.key,
             pullRequests |-> linkedPRsOf(allPRs, task),
             childTasks |-> [j \in DOMAIN children |->
                                [id |-> children[j].id, key |-> children[j].key,
                                 pullRequests |-> linkedPRsOf(allPRs, children[j])]]]]

-----------------------------------------------------------------------------
(* local-git route and workService.combineTasksWithLocalBranches *)

GithubCom == <<"g","i","t","h","u","b",".","c","o","m">>

DotGit == <<".","g","i","t">>

\* length of the run of characters other than "/" from position i
RECURSIVE RunLenNotSlash(_, _)
RunLenNotSlash(s, i) ==
    IF i <= Len(s) /\ s[i] # "/" THEN 1 + RunLenNotSlash(s, i + 1) ELSE 0

\* remoteOrigin.match(/github\.com[/:]([^/]+)\/([^/]+?)(?:\.git)?$/) at the
\* occurrence of github.com at position i: `${owner}/${repo}`, or None
RemoteMatchAt(url, i) ==
    LET sep   == i + Len(GithubCom)
        j     == sep + 1
        L     == RunLenNotSlash(url, j)
        slash == j + L
        rest  == Sub(url, slash + 1, Len(url))
        R     == RunLenNotSlash(rest, 1)
        repo  == IF Len(rest) > Len(DotGit)
                    /\ Sub(rest, Len(rest) - Len(DotGit) + 1, Len(rest)) = DotGit
                 THEN Sub(rest, 1, Len(rest) - Len(DotGit))
                 ELSE rest
    IN  IF /\ i + Len(GithubCom) - 1 <= Len(url)
           /\ Sub(url, i, i + Len(GithubCom) - 1) = GithubCom
           /\ sep <= Len(url) /\ url[sep] \in {"/", ":"}
           /\ L >= 1
           /\ slash <= Len(url)
           /\ Len(rest) >= 1 /\ R = Len(rest)
        THEN Sub(url, j, slash - 1) \o <<"/">> \o repo
        ELSE None

\* the leftmost match of the pattern in the URL, or None
remoteRepoName(url) ==
    LET Starts == { i \in 1..Len(url) : RemoteMatchAt(url, i) # None }
    IN  IF Starts = {} THEN None ELSE RemoteMatchAt(url, Min(Starts))

\* pr.repository?.split('/').pop()
RECURSIVE LastSlash(_, _)
LastSlash(s, i) == IF i = 0 THEN 0 ELSE IF s[i] = "/" THEN i ELSE LastSlash(s, i - 1)

prRepoName(repository) == Sub(repository, LastSlash(repository, Len(repository)) + 1, Len(repository))

\* new RegExp(escaped key, 'i').test(branch)
taskKeyRegexTest(key, branch) == \E i \in 1..Len(branch) : MatchesAtCI(branch, i, key)

sameRepository_noRemote(pr, localBranch) ==
    \/ pr.repository = localBranch.repository
    \/ prRepoName(pr.repository) = localBranch.repository

\* the repository comparison inside hasCorrespondingPR
sameRepository(pr, localBranch) ==
    \/ pr.repository = localBranch.repository
    \/ prRepoName(pr.repository) = localBranch.repository
    \/ /\ localBranch.remoteOrigin # None
       /\ remoteRepoName(localBranch.remoteOrigin) # None
       /\ remoteRepoName(localBranch.remoteOrigin) = pr.repository

hasCorrespondingPR(pullRequests, localBranch) ==
    \E i \in DOMAIN pullRequests :
        /\ pullRequests[i].branch = localBranch.branch
        /\ sameRepository(pullRequests[i], localBranch)

\* the deduplication loop: the first branch of each name is kept
RECURSIVE DedupByBranch(_, _)
DedupByBranch(branches, processedBranches) ==
    IF Len(branches) = 0 THEN <<>>
    ELSE IF Head(branches).branch \in processedBranches
         THEN DedupByBranch(Tail(branches), processedBranches)
         ELSE <<Head(branches)>>
              \o DedupByBranch(Tail(branches), processedBranches \cup {Head(branches).branch})

\* getLocalBranchesForTaskKeys(taskKeys) over the repositories found on disk
getLocalBranchesForTaskKeys(taskKeys, repos) ==
    LET RepoResult(r) ==
            LET Relevant(b) == \E k \in taskKeys : taskKeyRegexTest(k, b)
                relevantBranches == SelectSeq(r.branches, Relevant)
            IN  [i \in DOMAIN relevantBranches |->
                    [branch |-> relevantBranches[i], repository |-> r.repository,
                     remoteOrigin |-> r.remoteOrigin]]
    IN  DedupByBranch(Flatten([i \in DOMAIN repos |-> RepoResult(repos[i])]), {})

\* filterBranchesByTaskKey(...).filter(localBranch => !hasCorrespondingPR)
localBranchesOf(allLocalBranches, task) ==
    LET Kept(b) == /\ taskKeyRegexTest(task.key, b.branch)
                   /\ ~hasCorrespondingPR(task.pullRequests, b)
    IN  SelectSeq(allLocalBranches, Kept)

combineTasksWithLocalBranches(tasks, repos) ==
    LET allTaskKeys ==
            { tasks[i].key : i \in DOMAIN tasks }
            \cup UNION { { tasks[i].childTasks[j].key : j \in DOMAIN tasks[i].childTasks }
                         : i \in DOMAIN tasks }
        allLocalBranches == getLocalBranchesForTaskKeys(allTaskKeys, repos)
    IN  [i \in DOMAIN tasks |->
            [id |-> tasks[i].id, key |-> tasks[i].key,
             pullRequests |-> tasks[i].pullRequests,
             localBranches |-> localBranchesOf(allLocalBranches, tasks[i]),
             childTasks |-> [j \in DOMAIN tasks[i].childTasks |->
                                [id |-> tasks[i].childTasks[j].id,
                                 key |-> tasks[i].childTasks[j].key,
                                 pullRequests |-> tasks[i].childTasks[j].pullRequests,
                                 localBranches |->
                                     localBranchesOf(allLocalBranches, tasks[i].childTasks[j])]]]]

\* clones found below the home directory: directory name, remote origin
CloneWA == [repository |-> <<"w","e","b","s","i","t","e","-","a","c","c","o","u","n","t","i","n","g">>, remoteOrigin |-> <<"h","t","t","p","s",":","/","/","g","i","t","h","u","b",".","c","o","m","/","t","f","s","o","/","w","e","b","s","i","t","e","-","a","c","c","o","u","n","t","i","n","g",".","g","i","t">>]

CloneTab == [repository |-> <<"f","e","a","t","u","r","e","-","h","i","s","t","o","r","y","-","t","a","b">>, remoteOrigin |-> <<"g","i","t","@","g","i","t","h","u","b",".","c","o","m",":","t","f","s","o","/","w","e","b","s","i","t","e","-","a","c","c","o","u","n","t","i","n","g">>]

CloneSandbox == [repository |-> <<"s","a","n","d","b","o","x">>, remoteOrigin |-> None]

Clones == { CloneWA, CloneTab, CloneSandbox }

\* `git branch --list` of a clone, beside its default branch
LocalBranchLists ==
    { <<>>, << <<"f","e","a","t","u","r","e","/","A","B","C","-","1","_","f","i","x">> >>, << <<"a","b","c","-","1","2","_","l","o","c","a","l">> >>, << <<"a","b","c","-","1","2","_","l","o","c","a","l">>, <<"f","e","a","t","u","r","e","/","A","B","C","-","1","_","f","i","x">> >> }

\* what findGitRepositories can find: readdir order is not fixed
LocalDisks ==
    { d \in [1..Cardinality(Clones) -> [repository : {c.repository : c \in Clones},
                                        remoteOrigin : {c.remoteOrigin : c \in Clones},
                                        branches : LocalBranchLists]] :
        /\ \A i, j \in DOMAIN d : i # j => d[i].repository # d[j].repository
        /\ \A i \in DOMAIN d : \E c \in Clones : /\ c.repository = d[i].repository
                                                 /\ c.remoteOrigin = d[i].remoteOrigin }

-----------------------------------------------------------------------------
(* The server: GET /api/dashboard and POST /api/dashboard *)

\* Date.now() when the server starts, in ms (epoch time is far above the cache durations)
ServerStart == 60 * Minute

\* minutes of server time covered
MaxServerMinutes == 6

\* requests in flight
CallIds == {1}

IdleCall == [pc |-> "idle", selectedRepo |-> None, refresh |-> FALSE,
             isRateLimited |-> FALSE, now |-> 0,
             repos |-> <<>>, allPRs |-> <<>>, fetched |-> FALSE, outcomes |-> <<>>]

NoResponse == [delivered |-> FALSE, tasks |-> <<>>, usedPRs |-> <<>>, fetched |-> FALSE,
               selectedRepo |-> None, isRateLimited |-> FALSE]

NoBranches == [delivered |-> FALSE, tasks |-> <<>>]

ServerIdle ==
    /\ githubToken = TRUE
    /\ serverClock = ServerStart
    /\ cachedPRs = <<>>
    /\ cachedPRsTimestamp = 0
    /\ cachedActiveRepos = <<>>
    /\ cachedActiveReposTimestamp = 0
    /\ calls = [c \in CallIds |-> IdleCall]
    /\ response = NoResponse
    /\ localRepos = <<>>
    /\ tasksWithBranches = NoBranches

clearPRCache_keepsActiveRepos ==
    /\ cachedPRs' = <<>>
    /\ cachedPRsTimestamp' = 0
    /\ UNCHANGED <<cachedActiveRepos, cachedActiveReposTimestamp>>

\* clearPRCache, with clearActiveReposCache
clearPRCache ==
    /\ cachedPRs' = <<>>
    /\ cachedPRsTimestamp' = 0
    /\ cachedActiveRepos' = <<>>
    /\ cachedActiveReposTimestamp' = 0

\* GET /api/dashboard?repo=&refresh= up to the first await of getTasksWithPRs
Request(c, selectedRepo, refresh) ==
    /\ calls[c].pc = "idle"
    /\ IF refresh THEN clearPRCache
       ELSE UNCHANGED <<cachedPRs, cachedPRsTimestamp, cachedActiveRepos,
                        cachedActiveReposTimestamp>>
    /\ calls' = [calls EXCEPT ![c] = [IdleCall EXCEPT !.pc = "rateLimit",
                                                     !.selectedRepo = selectedRepo,
                                                     !.refresh = refresh]]
    /\ response' = NoResponse
    /\ tasksWithBranches' = NoBranches
    /\ UNCHANGED <<githubToken, serverClock, localRepos>>
    /\ UNCHANGED <<keyVars, metaVars, pageVars>>

\* checkGitHubRateLimit resolves; getTasksWithPRs runs to its next await.
\* Without a token the check always reports a rate limit.
RateLimitReturn(c, isRateLimited) ==
    LET call   == calls[c]
        now    == serverClock
        should == shouldFetchPRs(cachedPRs, cachedPRsTimestamp, now, call.selectedRepo)
        fetch  == callsFetch(should, isRateLimited, cachedPRs)
        \* fetchPullRequests, before its first await: refreshActiveReposCache
        refreshActive ==
            /\ fetch /\ githubToken /\ call.selectedRepo = None
            /\ \/ Len(cachedActiveRepos) = 0
               \/ now - cachedActiveReposTimestamp > ACTIVE_REPOS_CACHE_DURATION
    IN  /\ call.pc = "rateLimit"
        /\ ~githubToken => isRateLimited
        /\ IF refreshActive
           THEN /\ cachedActiveRepos' = whitelistedRepos
                /\ cachedActiveReposTimestamp' = now
           ELSE UNCHANGED <<cachedActiveRepos, cachedActiveReposTimestamp>>
        /\ calls' = [calls EXCEPT ![c] =
                        IF fetch
                        THEN [call EXCEPT !.pc = "fetchPRs", !.isRateLimited = isRateLimited,
                                          !.now = now, !.fetched = TRUE,
                                          !.repos = cachedActiveRepos']
                        ELSE [call EXCEPT !.pc = "fetchJira", !.isRateLimited = isRateLimited,
                                          !.now = now,
                                          !.allPRs = servedFromCache(cachedPRs,
                                                                     call.selectedRepo)]]
        /\ UNCHANGED <<githubToken, serverClock, cachedPRs, cachedPRsTimestamp, response,
                       localRepos, tasksWithBranches>>
        /\ UNCHANGED <<keyVars, metaVars, pageVars>>

\* fetchPullRequests resolves with what GitHub serves: the cache is replaced
FetchPRsReturn(c, got) ==
    LET call == calls[c]
        allPRs == fetchPullRequests(githubToken, call.selectedRepo, call.repos, got)
    IN  /\ call.pc = "fetchPRs"
        /\ cachedPRs' = allPRs
        /\ cachedPRsTimestamp' = call.now
        /\ calls' = [calls EXCEPT ![c] = [call EXCEPT !.pc = "fetchJira", !.allPRs = allPRs]]
        /\ UNCHANGED <<githubToken, serverClock, cachedActiveRepos, cachedActiveReposTimestamp,
                       response, localRepos, tasksWithBranches>>
        /\ UNCHANGED <<keyVars, metaVars, pageVars>>

\* fetchPullRequests fails: GitHub answers no request (fetchPRsFromRepo returns []
\* for a response that is not ok, fetchPullRequests returns [] from its catch)
FetchPRsFails(c) ==
    LET call == calls[c]
        allPRs == <<>>
    IN  /\ call.pc = "fetchPRs"
        /\ cachedPRs' = allPRs
        /\ cachedPRsTimestamp' = call.now
        /\ calls' = [calls EXCEPT ![c] = [call EXCEPT !.pc = "fetchJira", !.allPRs = allPRs]]
        /\ UNCHANGED <<githubToken, serverClock, cachedActiveRepos, cachedActiveReposTimestamp,
                       response, localRepos, tasksWithBranches>>
        /\ UNCHANGED <<keyVars, metaVars, pageVars>>

\* fetchJiraTasks resolves; the tasks are joined with the PRs and returned
JiraReturn(c, jiraTasks) ==
    LET call == calls[c]
    IN  /\ call.pc = "fetchJira"
        /\ response' = [delivered |-> TRUE,
                        tasks |-> tasksWithPRs(jiraTasks, call.allPRs, ServerMetadata),
                        usedPRs |-> call.allPRs,
                        fetched |-> call.fetched,
                        selectedRepo |-> call.selectedRepo,
                        isRateLimited |-> call.isRateLimited]
        /\ calls' = [calls EXCEPT ![c] = IdleCall]
        /\ UNCHANGED <<githubToken, serverClock, cachedPRs, cachedPRsTimestamp,
                       cachedActiveRepos, cachedActiveReposTimestamp, localRepos,
                       tasksWithBranches>>
        /\ UNCHANGED <<keyVars, metaVars, pageVars>>

\* POST /api/dashboard { action: 'local-branches', tasks }: phase 2 on the
\* tasks phase 1 delivered
LoadLocalBranches ==
    /\ response.delivered
    /\ ~tasksWithBranches.delivered
    /\ tasksWithBranches' = [delivered |-> TRUE,
                             tasks |-> combineTasksWithLocalBranches(response.tasks, localRepos)]
    /\ UNCHANGED <<githubToken, serverClock, cachedPRs, cachedPRsTimestamp, cachedActiveRepos,
                   cachedActiveReposTimestamp, calls, response, localRepos>>
    /\ UNCHANGED <<keyVars, metaVars, pageVars>>

ServerTick ==
    /\ serverClock < ServerStart + MaxServerMinutes * Minute
    /\ serverClock' = serverClock + Minute
    /\ UNCHANGED <<githubToken, cachedPRs, cachedPRsTimestamp, cachedActiveRepos,
                   cachedActiveReposTimestamp, calls, response, localRepos, tasksWithBranches>>
    /\ UNCHANGED <<keyVars, metaVars, pageVars>>

\* what fetchJiraTasks can return
JiraResults == { JiraTickets, <<>> }

-----------------------------------------------------------------------------
(* Branch names the extractor is applied to *)

NamePrefixes == { <<>>, <<"f","e","a","t","u","r","e","/">>, <<"b","u","g","f","i","x","/">>,
                  <<"H","o","t","f","i","x","/">>, <<"x","/">> }

NameProjects == { <<>>, <<"A","B","C">>, <<"a","b","c">>, <<"r","o","c">>,
                  <<"P","R","O","J">>, <<"a","1">> }

NameDashes == { <<>>, <<"-">> }

NameNumbers == { <<>>, <<"4","2">>, <<"1","2","3">> }

NameSuffixes == { <<>>, <<"_","f","o","o">>, <<"x">>, <<"-","f","i","x">>, <<"_","t","y","p","o">> }

BranchNames ==
    ({ p \o k \o d \o n \o x : p \in NamePrefixes, k \in NameProjects, d \in NameDashes,
                              n \in NameNumbers, x \in NameSuffixes }
    \cup { RandomBranchName }) \ { <<>> }

KeyInit ==
    /\ branchName \in BranchNames
    /\ taskKey = Unset
    /\ MetaIdle
    /\ ServerIdle
    /\ PageIdle

\* fetchPRsFromRepo: const linkedTaskKey = extractTaskKeyFromBranch(pr.head.ref)
ExtractKey ==
    /\ taskKey = Unset
    /\ taskKey' = extractTaskKeyFromBranch(branchName)
    /\ UNCHANGED branchName
    /\ UNCHANGED <<metaVars, serverVars, pageVars>>

\* the next pull request of the page
NextBranch ==
    /\ taskKey # Unset
    /\ branchName' \in BranchNames
    /\ taskKey' = Unset
    /\ UNCHANGED <<metaVars, serverVars, pageVars>>

KeyNext == ExtractKey \/ NextBranch

SpecKey == KeyInit /\ [][KeyNext]_vars

-----------------------------------------------------------------------------
(* JiraTaskCard: the handlers of a rendered task card *)

\* the hook's updateMetadata applied to the store
StoreAfterUpdate(store, taskId, updates) == updateJiraTaskMetadata(store, taskId, updates)

\* every change of the hook state or of the tasks re-renders the list
Rerender == visible' = Render(metadata', lastJiraUpdate')

\* handleDrop on the card of task target, with draggedTaskId from the
\* dataTransfer (0: no text); only a full (visible) card accepts drops
HandleDrop(draggedTaskId, target) ==
    LET accepted == /\ draggedTaskId # 0
                    /\ draggedTaskId # target
                    /\ ~wouldCreateLoop(storage, draggedTaskId, target)
        updates  == [parentTaskId |-> target]
    IN  /\ visible[target]
        /\ dropEvent' = [dragged |-> draggedTaskId, target |-> target, accepted |-> accepted]
        /\ IF accepted
           THEN /\ storage' = StoreAfterUpdate(setTaskParent(storage, draggedTaskId, target),
                                               draggedTaskId, updates)
                /\ metadata' = setMetadata(metadata, draggedTaskId, updates)
           ELSE UNCHANGED <<storage, metadata>>
        /\ UNCHANGED <<lastJiraUpdate, browserClock>>
        /\ Rerender
        /\ UNCHANGED <<keyVars, serverVars, pageVars>>

\* handleRemoveParent: the button exists only on a task that has a parent
HandleRemoveParent(taskId) ==
    LET updates == [parentTaskId |-> NoParent]
    IN  /\ visible[taskId]
        /\ MetadataOrDefault(metadata, taskId).parentTaskId # NoParent
        /\ storage' = StoreAfterUpdate(setTaskParent(storage, taskId, NoParent), taskId, updates)
        /\ metadata' = setMetadata(metadata, taskId, updates)
        /\ UNCHANGED <<lastJiraUpdate, browserClock, dropEvent>>
        /\ Rerender
        /\ UNCHANGED <<keyVars, serverVars, pageVars>>

\* handleHideTask: offered when the rendered hiddenStatus is 'visible'
HandleHideTask(taskId) ==
    LET updates == [hiddenStatus |-> "hidden", hiddenUntilUpdatedDate |-> NoDate]
    IN  /\ visible[taskId]
        /\ storage' = StoreAfterUpdate(hideTask(storage, taskId), taskId, updates)
        /\ metadata' = setMetadata(metadata, taskId, updates)
        /\ UNCHANGED <<lastJiraUpdate, browserClock, dropEvent>>
        /\ Rerender
        /\ UNCHANGED <<keyVars, serverVars, pageVars>>

\* handleHideUntilUpdated
HandleHideUntilUpdated(taskId) ==
    LET hiddenDate == toISOString(browserClock)
        updates == [hiddenStatus |-> "hiddenUntilUpdated", hiddenUntilUpdatedDate |-> hiddenDate]
    IN  /\ visible[taskId]
        /\ storage' = StoreAfterUpdate(hideTaskUntilUpdated(storage, taskId, browserClock),
                                       taskId, updates)
        /\ metadata' = setMetadata(metadata, taskId, updates)
        /\ UNCHANGED <<lastJiraUpdate, browserClock, dropEvent>>
        /\ Rerender
        /\ UNCHANGED <<keyVars, serverVars, pageVars>>

\* handleShowTask: offered when the rendered hiddenStatus is not 'visible'
HandleShowTask(taskId) ==
    LET updates == [hiddenStatus |-> "visible", hiddenUntilUpdatedDate |-> NoDate]
    IN  /\ ~visible[taskId]
        /\ storage' = StoreAfterUpdate(showTask(storage, taskId), taskId, updates)
        /\ metadata' = setMetadata(metadata, taskId, updates)
        /\ UNCHANGED <<lastJiraUpdate, browserClock, dropEvent>>
        /\ Rerender
        /\ UNCHANGED <<keyVars, serverVars, pageVars>>

-----------------------------------------------------------------------------
(* The parent graph: drag-and-drop and detach on NumTasks tasks *)

HierarchyInit ==
    /\ MetaIdle
    /\ ServerIdle
    /\ PageIdle
    /\ branchName = RandomBranchName
    /\ taskKey = Unset

HierarchyNext ==
    \/ \E d \in 0..NumTasks, t \in TaskIds : HandleDrop(d, t)
    \/ \E t \in TaskIds : HandleRemoveParent(t)
    \/ \E t \in TaskIds : HandleHideTask(t)
    \/ \E t \in TaskIds : HandleShowTask(t)

SpecHierarchy == HierarchyInit /\ [][HierarchyNext]_vars

\* the tasks from which t is reachable by following parentTaskId, 1..k steps
RECURSIVE AncestorsWithin(_, _, _)
AncestorsWithin(md, t, k) ==
    IF k = 0 \/ md[t].parentTaskId = NoParent THEN {}
    ELSE {md[t].parentTaskId} \cup AncestorsWithin(md, md[t].parentTaskId, k - 1)

Ancestors(md, t) == AncestorsWithin(md, t, NumTasks)

\* length of the parent chain above t, counted up to k steps
RECURSIVE ChainLength(_, _, _)
ChainLength(md, t, k) ==
    IF k = 0 \/ md[t].parentTaskId = NoParent THEN 0
    ELSE 1 + ChainLength(md, md[t].parentTaskId, k - 1)

Acyclic(md) ==
    \A t \in TaskIds : /\ t \notin Ancestors(md, t)
                       /\ ChainLength(md, t, NumTasks) < NumTasks

\* C3: the parent relation of the persisted store and of the hook state stays
\* acyclic under every sequence of drops and detaches: no task is its own
\* ancestor and every parent chain ends at a task without a parent.
C3_ParentRelationAcyclic == Acyclic(storage) /\ Acyclic(metadata)

\* C3 witness: an accepted drop has built a chain of two parent links, and the
\* store is still acyclic
C3_Witness ==
    /\ dropEvent.accepted
    /\ \E t \in TaskIds : ChainLength(storage, t, NumTasks) >= 2

\* C4: a drop whose dragged id equals the target, or whose target has the
\* dragged task among its ancestors, leaves the persisted store and the hook
\* state exactly as they were.
C4_RejectedDropChangesNothing ==
    [][\A d \in TaskIds, t \in TaskIds :
         (HandleDrop(d, t) /\ (d = t \/ d \in Ancestors(storage, t)))
            => (storage' = storage /\ metadata' = metadata)]_vars

\* C4 witness: a drop of an ancestor onto its descendant was rejected while
\* the store holds parent links and a hidden task
C4_Witness ==
    /\ ~dropEvent.accepted
    /\ dropEvent.dragged # 0
    /\ dropEvent.dragged # dropEvent.target
    /\ dropEvent.dragged \in Ancestors(storage, dropEvent.target)
    /\ \E t \in TaskIds : storage[t].hiddenStatus = "hidden"

-----------------------------------------------------------------------------
(* Visibility: hide, hide until updated, show, and ticket updates from Jira *)

\* tasks the user hides and shows
NumWatched == 2

WatchedIds == 1..NumWatched

\* minutes of browser time covered
MaxBrowserMinutes == 2

\* UTC offsets Jira renders fields.updated with
TzOffsets == {0, 60 * Minute}

\* values of issue.fields.updated: absent, or an instant rendered at an offset
UpdatedValues ==
    {NoDate} \cup { Iso(i * Minute + o, o) : i \in 0..MaxBrowserMinutes, o \in TzOffsets }

\* entries a store written by another version of the application can hold
StoredBefore ==
    { Absent,
      [Absent EXCEPT !.present = TRUE],
      [Absent EXCEPT !.present = TRUE, !.hiddenStatus = "archived"],
      [Absent EXCEPT !.present = TRUE, !.hiddenStatus = "hiddenUntilUpdated"] }

VisibilityInit ==
    /\ storage \in { s \in [TaskIds -> StoredBefore] :
                        \A t \in TaskIds \ WatchedIds : s[t] = Absent }
    /\ metadata = getAllJiraMetadata(storage)
    /\ lastJiraUpdate = [t \in TaskIds |-> NoDate]
    /\ browserClock = 0
    /\ visible = Render(metadata, lastJiraUpdate)
    /\ dropEvent = NoDrop
    /\ ServerIdle
    /\ PageIdle
    /\ branchName = RandomBranchName
    /\ taskKey = Unset

\* useJiraPolling / loadData: setTasks with the tickets as Jira now reports
\* them; the ticket taskId comes back with another fields.updated
TasksFetched(taskId, updated) ==
    /\ lastJiraUpdate' = [lastJiraUpdate EXCEPT ![taskId] = updated]
    /\ UNCHANGED <<storage, metadata, browserClock, dropEvent>>
    /\ Rerender
    /\ UNCHANGED <<keyVars, serverVars, pageVars>>

BrowserTick ==
    /\ browserClock < MaxBrowserMinutes * Minute
    /\ browserClock' = browserClock + Minute
    /\ UNCHANGED <<storage, metadata, lastJiraUpdate, visible, dropEvent>>
    /\ UNCHANGED <<keyVars, serverVars, pageVars>>

VisibilityNext ==
    \/ \E t \in WatchedIds : HandleHideTask(t)
    \/ \E t \in WatchedIds : HandleHideUntilUpdated(t)
    \/ \E t \in WatchedIds : HandleShowTask(t)
    \/ \E t \in WatchedIds, u \in UpdatedValues : TasksFetched(t, u)
    \/ BrowserTick

SpecVisibility == VisibilityInit /\ [][VisibilityNext]_vars

\* C5: for a task whose metadata says hiddenUntilUpdated, the rendered
\* visibility is exactly (instant of lastJiraUpdate > instant of
\* hiddenUntilUpdatedDate) when both are present, and true when either the
\* ticket's lastJiraUpdate or the hiddenUntilUpdatedDate is absent.
C5_HiddenUntilUpdatedVisibility ==
    \A t \in TaskIds :
        LET md == MetadataOrDefault(metadata, t)
            t1 == lastJiraUpdate[t]
            t0 == md.hiddenUntilUpdatedDate
        IN  md.hiddenStatus = "hiddenUntilUpdated" =>
              /\ (t1.defined /\ t0.defined) =>
                    (visible[t] <=> (t1.wall - t1.off > t0.wall - t0.off))
              /\ ~t1.defined => visible[t]
              /\ ~t0.defined => visible[t]

\* C5 witness: a task hidden until updated whose ticket was last updated at
\* the very instant it was hidden (rendered at another offset) is still hidden
C5_Witness ==
    \E t \in TaskIds :
        /\ metadata[t].present
        /\ metadata[t].hiddenStatus = "hiddenUntilUpdated"
        /\ metadata[t].hiddenUntilUpdatedDate.defined
        /\ lastJiraUpdate[t].defined
        /\ lastJiraUpdate[t].off # 0
        /\ getTime(lastJiraUpdate[t]) = getTime(metadata[t].hiddenUntilUpdatedDate)
        /\ ~visible[t]

KnownStatuses == {"visible", "hidden", "hiddenUntilUpdated"}

\* C6: a task renders visible when its hiddenStatus is 'visible', not visible
\* when it is 'hidden' whatever the timestamps are, and visible for every
\* other status value and for a stored entry without a hiddenStatus.
C6_VisibilityFailsOpen ==
    \A t \in TaskIds :
        LET md == MetadataOrDefault(metadata, t)
        IN  /\ md.hiddenStatus = "visible" => visible[t]
            /\ md.hiddenStatus = "hidden" => ~visible[t]
            /\ md.hiddenStatus \notin KnownStatuses => visible[t]
            /\ (storage[t].present /\ storage[t].hiddenStatus = "") => visible[t]

\* C6 witness: one task with an unknown status and a dated ticket renders
\* visible while another, hidden, task with a dated ticket does not
C6_Witness ==
    \E t, u \in TaskIds :
        /\ metadata[t].present /\ metadata[t].hiddenStatus = "archived"
        /\ lastJiraUpdate[t].defined /\ visible[t]
        /\ metadata[u].present /\ metadata[u].hiddenStatus = "hidden"
        /\ lastJiraUpdate[u].defined /\ ~visible[u]

-----------------------------------------------------------------------------
(* Branch key extraction on the branch names of fetched pull requests *)

FeatureExample == <<"f","e","a","t","u","r","e","/","A","B","C","-","1","2","3","_","f","o","o">>

BugfixExample == <<"b","u","g","f","i","x","/","4","2","_","t","y","p","o">>

HasLowerCase(k) == \E i \in DOMAIN k : IsLowerLetter(k[i])

\* C9: feature/ABC-123_foo yields ABC-123, bugfix/42_typo yields the default
\* project key ROC-42, random-branch-name yields no key, and every key
\* returned is upper case.
C9_BranchKeyExtraction ==
    taskKey # Unset =>
        /\ branchName = FeatureExample => taskKey = <<"A","B","C","-","1","2","3">>
        /\ branchName = BugfixExample => taskKey = <<"R","O","C","-","4","2">>
        /\ branchName = RandomBranchName => taskKey = None
        /\ taskKey # None => ~HasLowerCase(taskKey)

\* the part of C9 the extractor satisfies: the feature and random examples,
\* upper-case keys, and no key for a branch that carries only a number
C9_ExtractionAsImplemented ==
    taskKey # Unset =>
        /\ branchName = FeatureExample => taskKey = <<"A","B","C","-","1","2","3">>
        /\ branchName = BugfixExample => taskKey = None
        /\ branchName = RandomBranchName => taskKey = None
        /\ taskKey # None => ~HasLowerCase(taskKey)

-----------------------------------------------------------------------------
(* The PR cache: GET /api/dashboard over time *)

CacheInit ==
    /\ MetaIdle
    /\ branchName = RandomBranchName
    /\ taskKey = Unset
    /\ githubToken \in BOOLEAN
    /\ serverClock = ServerStart
    /\ cachedPRs = <<>>
    /\ cachedPRsTimestamp = 0
    /\ cachedActiveRepos = <<>>
    /\ cachedActiveReposTimestamp = 0
    /\ calls = [c \in CallIds |-> IdleCall]
    /\ response = NoResponse
    /\ localRepos = <<>>
    /\ tasksWithBranches = NoBranches
    /\ PageIdle

CacheNext ==
    \/ \E c \in CallIds, selectedRepo \in Selections, refresh \in BOOLEAN :
            Request(c, selectedRepo, refresh)
    \/ \E c \in CallIds, isRateLimited \in BOOLEAN : RateLimitReturn(c, isRateLimited)
    \/ \E c \in CallIds, got \in SUBSET PullIds : FetchPRsReturn(c, got)
    \/ \E c \in CallIds : FetchPRsFails(c)
    \/ \E c \in CallIds, jiraTasks \in JiraResults : JiraReturn(c, jiraTasks)
    \/ ServerTick

SpecCache == CacheInit /\ [][CacheNext]_vars

\* the cache was filled (and not cleared since) at most CACHE_DURATION ago
WithinTTL == cachedPRsTimestamp > 0 /\ serverClock - cachedPRsTimestamp <= CACHE_DURATION

\* the call c decides not to call fetchPullRequests
NoFetchBy(c) == /\ calls'[c].pc = "fetchJira"
                /\ ~calls'[c].fetched
                /\ UNCHANGED <<cachedPRs, cachedPRsTimestamp>>

FilterIsCached(selectedRepo) ==
    \E i \in DOMAIN cachedPRs :
        /\ Len(cachedPRs[i].repository) = Len(selectedRepo)
        /\ \A k \in 1..Len(selectedRepo) :
                UpperChar(cachedPRs[i].repository[k]) = UpperChar(selectedRepo[k])

C2_RateLimitedServesCache ==
    [][\A c \in CallIds :
            (RateLimitReturn(c, TRUE) /\ Len(cachedPRs) > 0)
            => /\ NoFetchBy(c)
               /\ LET used == calls'[c].allPRs
                      sel  == calls[c].selectedRepo
                      Wanted(pr) == sel \in {None, All}
                                    \/ toUpperCase(pr.repository) = toUpperCase(sel)
                  IN  used = SelectSeq(cachedPRs, Wanted)]_vars

\* a rate-limited call with an expired, non-empty cache and a repository filter
\* that selects a proper part of the cache
C2_Witness ==
    \E c \in CallIds :
        /\ calls[c].pc = "fetchJira"
        /\ calls[c].isRateLimited
        /\ ~calls[c].fetched
        /\ calls[c].now - cachedPRsTimestamp > CACHE_DURATION
        /\ calls[c].selectedRepo = RepoAV
        /\ Len(calls[c].allPRs) > 0
        /\ Len(calls[c].allPRs) < Len(cachedPRs)

\* a and b are equal up to the case of their letters
EqualIgnoringCase(a, b) ==
    /\ Len(a) = Len(b)
    /\ \A k \in 1..Len(a) : UpperChar(a[k]) = UpperChar(b[k])

\* C10: in the output of getTasksWithPRs, a PR is among a task's pullRequests
\* exactly when it has a linkedTaskKey equal to the task's key ignoring case;
\* a PR without linkedTaskKey is among no task's pullRequests.
C10_LinkedIffKeyEqualIgnoringCase ==
    response.delivered =>
        \A i \in DOMAIN response.tasks :
            LET task == response.tasks[i]
                attached == { task.pullRequests[k].id : k \in DOMAIN task.pullRequests }
            IN  /\ attached \subseteq { response.usedPRs[j].id : j \in DOMAIN response.usedPRs }
                /\ \A j \in DOMAIN response.usedPRs :
                    LET pr == response.usedPRs[j]
                    IN  pr.id \in attached
                        <=> (pr.linkedTaskKey # None
                             /\ EqualIgnoringCase(pr.linkedTaskKey, task.key))

\* a response built from all three PRs: 101 is attached to ABC-1 only, 201
\* (key ABC-12) is not attached to ABC-1, 102 has no key
C10_Witness ==
    /\ response.delivered
    /\ { response.usedPRs[j].id : j \in DOMAIN response.usedPRs } = PullIds
    /\ \E j \in DOMAIN response.usedPRs : response.usedPRs[j].linkedTaskKey = None
    /\ \E i \in DOMAIN response.tasks :
            { response.tasks[i].pullRequests[k].id :
                k \in DOMAIN response.tasks[i].pullRequests } = {101}

-----------------------------------------------------------------------------
(* Reconciliation with the local branches: GET, then POST /api/dashboard *)

ReconcileInit ==
    /\ MetaIdle
    /\ branchName = RandomBranchName
    /\ taskKey = Unset
    /\ githubToken = TRUE
    /\ serverClock = ServerStart
    /\ cachedPRs = <<>>
    /\ cachedPRsTimestamp = 0
    /\ cachedActiveRepos = <<>>
    /\ cachedActiveReposTimestamp = 0
    /\ calls = [c \in CallIds |-> IdleCall]
    /\ response = NoResponse
    /\ localRepos \in LocalDisks
    /\ tasksWithBranches = NoBranches
    /\ PageIdle

ReconcileNext ==
    \/ \E c \in CallIds : Request(c, None, FALSE)
    \/ \E c \in CallIds : RateLimitReturn(c, FALSE)
    \/ \E c \in CallIds, got \in SUBSET PullIds : FetchPRsReturn(c, got)
    \/ \E c \in CallIds : JiraReturn(c, JiraTickets)
    \/ LoadLocalBranches

SpecReconcile == ReconcileInit /\ [][ReconcileNext]_vars

\* the tasks of a phase-2 response and their children
ReconciledTasks ==
    { tasksWithBranches.tasks[i] : i \in DOMAIN tasksWithBranches.tasks }
    \cup UNION { { tasksWithBranches.tasks[i].childTasks[j] :
                     j \in DOMAIN tasksWithBranches.tasks[i].childTasks }
                 : i \in DOMAIN tasksWithBranches.tasks }

\* the URL is a GitHub URL of the repository, with or without .git
OriginNames(url, repository) ==
    \E i \in 1..Len(url), sep \in {"/", ":"}, suffix \in {<<>>, DotGit} :
        Sub(url, i, Len(url)) = GithubCom \o <<sep>> \o repository \o suffix

\* the local branch is in the repository of the PR
InRepositoryOf(pr, lb) ==
    \/ lb.repository = pr.repository
    \/ \E i \in 0..Len(pr.repository) :
            /\ i = 0 \/ pr.repository[i] = "/"
            /\ \A k \in (i + 1)..Len(pr.repository) : pr.repository[k] # "/"
            /\ lb.repository = Sub(pr.repository, i + 1, Len(pr.repository))
    \/ lb.remoteOrigin # None /\ OriginNames(lb.remoteOrigin, pr.repository)

\* C7: no task returned by combineTasksWithLocalBranches, and no child task,
\* has in localBranches a branch with the name of one of its pullRequests that
\* is also in that PR's repository (equal repository string, last path segment
\* of the PR's repository equal to the local repository name, or owner/repo of
\* remoteOrigin equal to the PR's repository).
C7_NoDuplicateRepresentation ==
    tasksWithBranches.delivered =>
        \A task \in ReconciledTasks :
            \A b \in DOMAIN task.localBranches, p \in DOMAIN task.pullRequests :
                ~( /\ task.localBranches[b].branch = task.pullRequests[p].branch
                   /\ InRepositoryOf(task.pullRequests[p], task.localBranches[b]) )

\* the clone whose directory has another name than the repository comes first
\* and holds the branch of PR 101: the branch is left out by its remote origin,
\* another local branch of the task is kept
C7_Witness ==
    /\ tasksWithBranches.delivered
    /\ localRepos[1].repository = CloneTab.repository
    /\ \E k \in DOMAIN localRepos[1].branches :
            localRepos[1].branches[k] = GitHubPulls[1].branch
    /\ \E task \in ReconciledTasks :
            /\ \E p \in DOMAIN task.pullRequests : task.pullRequests[p].id = 101
            /\ Len(task.localBranches) > 0
            /\ \A b \in DOMAIN task.localBranches :
                    task.localBranches[b].branch # GitHubPulls[1].branch

\* the orders in which the elements of a list can be supplied
Orders(s) ==
    { [i \in DOMAIN s |-> s[p[i]]] :
        p \in { q \in [DOMAIN s -> DOMAIN s] : \A i, j \in DOMAIN s : i # j => q[i] # q[j] } }

\* a reconciled task list as a set of tasks with sets of PRs and local branches
AsSets(tasks) ==
    { [key |-> tasks[i].key,
       pullRequests |-> { tasks[i].pullRequests[k].id : k \in DOMAIN tasks[i].pullRequests },
       localBranches |-> { [branch |-> tasks[i].localBranches[k].branch,
                            repository |-> tasks[i].localBranches[k].repository] :
                           k \in DOMAIN tasks[i].localBranches }] : i \in DOMAIN tasks }

\* C8: supplying the same tickets, PRs and local repositories (the same branch
\* name may be in several of them) in any other order gives the same set of
\* reconciled tasks, each with the same set of pullRequests and localBranches.
C8_ReconciliationOrderIndependent ==
    tasksWithBranches.delivered =>
        \A tickets \in Orders([i \in DOMAIN response.tasks |->
                                        [id |-> response.tasks[i].id,
                                         key |-> response.tasks[i].key]]),
           prs \in Orders(response.usedPRs),
           repos \in Orders(localRepos) :
            AsSets(combineTasksWithLocalBranches(tasksWithPRs(tickets, prs, ServerMetadata),
                                                 repos))
            = AsSets(tasksWithBranches.tasks)

-----------------------------------------------------------------------------
(* githubService.fetchPRsFromRepo: the review state of a PR *)

\* reviews GitHub can hold for one PR
MaxReviews == 3

Reviewers == {"alice", "bob"}

ReviewStates == {"APPROVED", "CHANGES_REQUESTED", "COMMENTED", "DISMISSED"}

ReviewLists ==
    UNION { [1..n -> [user : Reviewers, state : ReviewStates]] : n \in 0..MaxReviews }

\* one element of the pulls response, and how the request for its reviews ends
PullInputs ==
    { p \in [state : {"open", "closed"}, merged_at : BOOLEAN,
             repo : {RepoWA, RepoRL},
             requested_reviewers : {{}, {"carol"}},
             reviews : ReviewLists,
             reviewsResponse : {"ok", "notOk", "throws"}] :
        p.merged_at => p.state = "closed" }

EmptyMap == [u \in {} |-> "none"]

\* reviews.forEach(review => { if (review.state !== 'COMMENTED')
\*                               latestReviews.set(review.user.login, review.state) })
RECURSIVE latestReviewsOf(_)
latestReviewsOf(reviews) ==
    IF Len(reviews) = 0 THEN EmptyMap
    ELSE LET before == latestReviewsOf(SubSeq(reviews, 1, Len(reviews) - 1))
             review == reviews[Len(reviews)]
         IN  IF review.state # "COMMENTED"
             THEN [u \in DOMAIN before \cup {review.user} |->
                      IF u = review.user THEN review.state ELSE before[u]]
             ELSE before

reviewStatusOf_approvalFirst(hasChangesRequested, hasApprovals, approvedCount, requiredReviewers) ==
    IF hasApprovals /\ approvedCount >= requiredReviewers THEN "approved"
    ELSE IF hasChangesRequested THEN "changes_requested"
    ELSE "pending"

\* "Now determine the correct review status based on all information"
reviewStatusOf(hasChangesRequested, hasApprovals, approvedCount, requiredReviewers) ==
    IF hasChangesRequested THEN "changes_requested"
    ELSE IF hasApprovals
         THEN IF requiredReviewers > 0 /\ approvedCount >= requiredReviewers THEN "approved"
              ELSE IF requiredReviewers > 0 THEN "pending"
              ELSE "approved"
    ELSE "pending"

\* the review fields of the record built for one element of the pulls response
reviewFields(p) ==
    LET prStatus == IF p.merged_at THEN "merged" ELSE p.state
        gotReviews == p.reviewsResponse = "ok"
        latestReviews == IF gotReviews /\ Len(p.reviews) > 0
                         THEN latestReviewsOf(p.reviews) ELSE EmptyMap
        hasApprovals == \E u \in DOMAIN latestReviews : latestReviews[u] = "APPROVED"
        hasChangesRequested ==
            \E u \in DOMAIN latestReviews : latestReviews[u] = "CHANGES_REQUESTED"
        approvedReviewers == { u \in DOMAIN latestReviews : latestReviews[u] = "APPROVED" }
        requiredReviewers == IF p.repo = RepoRL THEN 2 ELSE 1
    IN  IF prStatus # "open" \/ p.reviewsResponse = "throws"
        THEN [status |-> prStatus, reviewStatus |-> "no_reviews", requestedReviewers |-> {},
              approvedReviewers |-> {}, requiredReviewers |-> 0]
        ELSE [status |-> prStatus,
              reviewStatus |-> reviewStatusOf(hasChangesRequested, hasApprovals,
                                              Cardinality(approvedReviewers),
                                              requiredReviewers),
              requestedReviewers |-> IF gotReviews THEN p.requested_reviewers ELSE {},
              approvedReviewers |-> approvedReviewers,
              requiredReviewers |-> requiredReviewers]

ReviewInit ==
    /\ MetaIdle
    /\ ServerIdle
    /\ branchName = RandomBranchName
    /\ taskKey = Unset
    /\ pull \in PullInputs
    /\ prRecord = NoRecord
    /\ ListIdle
    /\ PollIdle
    /\ PRIdle
    /\ MoreIdle

\* data.map(async pr => ...) for one PR
MapPull ==
    /\ prRecord = NoRecord
    /\ prRecord' = reviewFields(pull)
    /\ UNCHANGED pull
    /\ UNCHANGED <<keyVars, metaVars, serverVars, listVars, pollVars, prVars, moreVars>>

\* the record is dropped when the PRs are fetched again
DropRecord ==
    /\ prRecord # NoRecord
    /\ prRecord' = NoRecord
    /\ UNCHANGED pull
    /\ UNCHANGED <<keyVars, metaVars, serverVars, listVars, pollVars, prVars, moreVars>>

ReviewNext == MapPull \/ DropRecord

SpecReview == ReviewInit /\ [][ReviewNext]_vars

\* the reviewer's latest review that is not a comment has this state
LatestIs(reviews, user, state) ==
    \E i \in DOMAIN reviews :
        /\ reviews[i].user = user
        /\ reviews[i].state = state
        /\ state # "COMMENTED"
        /\ \A j \in DOMAIN reviews :
                (j > i /\ reviews[j].user = user) => reviews[j].state = "COMMENTED"

ApprovedBy(reviews) == { u \in Reviewers : LatestIs(reviews, u, "APPROVED") }

ChangesRequestedIn(reviews) == \E u \in Reviewers : LatestIs(reviews, u, "CHANGES_REQUESTED")

\* C11 as stated, for every PR fetchPRsFromRepo maps: reviewStatus is approved
\* only when at least requiredReviewers reviewers have APPROVED as their latest
\* non-comment review, and it is changes_requested whenever some reviewer's
\* latest non-comment review is CHANGES_REQUESTED.
C11_ReviewState ==
    prRecord # NoRecord =>
        /\ prRecord.reviewStatus = "approved"
                => Cardinality(ApprovedBy(pull.reviews)) >= prRecord.requiredReviewers
        /\ ChangesRequestedIn(pull.reviews) => prRecord.reviewStatus = "changes_requested"

\* the PR is open and the request for its reviews succeeded
ReviewsRead == /\ ~pull.merged_at /\ pull.state = "open"
               /\ pull.reviewsResponse = "ok"

\* C11 amended: reviewStatus is approved only when at least requiredReviewers
\* reviewers have APPROVED as their latest non-comment review; for an open PR
\* whose reviews request succeeded it is changes_requested whenever some
\* reviewer's latest non-comment review is CHANGES_REQUESTED, even if others
\* approved; for a PR that is closed or merged, or whose reviews request
\* failed, it is no_reviews or pending whatever the reviews are.
C11_ReviewStateOfReadReviews ==
    prRecord # NoRecord =>
        /\ prRecord.reviewStatus = "approved"
                => /\ Cardinality(ApprovedBy(pull.reviews)) >= prRecord.requiredReviewers
                   /\ prRecord.requiredReviewers >= 1
        /\ (ReviewsRead /\ ChangesRequestedIn(pull.reviews))
                => prRecord.reviewStatus = "changes_requested"
        /\ ~ReviewsRead => prRecord.reviewStatus \in {"no_reviews", "pending"}

\* an open PR whose reviews were read: one reviewer requested changes after
\* the other had approved, which alone would be enough for the repository
C11_Witness ==
    /\ prRecord # NoRecord
    /\ ReviewsRead
    /\ prRecord.reviewStatus = "changes_requested"
    /\ prRecord.requiredReviewers = 1
    /\ Cardinality(ApprovedBy(pull.reviews)) >= prRecord.requiredReviewers

-----------------------------------------------------------------------------
(* useJiraMetadata: the task lists the dashboard renders *)

StatusQA == <<"Q","A">>

StatusDone == <<"D","o","n","e">>

PriorityHigh == <<"H","i","g","h">>

PriorityLow == <<"L","o","w">>

TypeBug == <<"B","u","g">>

TypeTask == <<"T","a","s","k">>

\* the tickets of the list: fields of JiraTask the ordering can depend on
TaskVariants ==
    { [status |-> StatusQA, priority |-> PriorityHigh, issueType |-> TypeBug,
       isInSprint |-> TRUE, lastJiraUpdate |-> Iso(0, 0)],
      [status |-> StatusQA, priority |-> PriorityHigh, issueType |-> TypeBug,
       isInSprint |-> TRUE, lastJiraUpdate |-> Iso(2 * Minute, 0)],
      [status |-> StatusQA, priority |-> PriorityLow, issueType |-> TypeBug,
       isInSprint |-> TRUE, lastJiraUpdate |-> Iso(0, 0)],
      [status |-> StatusDone, priority |-> PriorityLow, issueType |-> TypeTask,
       isInSprint |-> FALSE, lastJiraUpdate |-> Iso(0, 0)] }

\* the tasks prop of the hook: the list as the dashboard fetched it
TaskLists ==
    { [i \in TaskIds |->
          [id |-> i, status |-> v[i].status, priority |-> v[i].priority,
           issueType |-> v[i].issueType, isInSprint |-> v[i].isInSprint,
           lastJiraUpdate |-> v[i].lastJiraUpdate]] : v \in [TaskIds -> TaskVariants] }

\* entries earlier sessions left in localStorage
StoredEntries ==
    ( {Absent}
      \cup { [present |-> TRUE, parentTaskId |-> p, hiddenStatus |-> h,
              hiddenUntilUpdatedDate |->
                  IF h = "hiddenUntilUpdated" THEN Iso(Minute, 0) ELSE NoDate,
              childTasksExpanded |-> "undefined"] :
             p \in {NoParent, 1}, h \in {"visible", "hidden", "hiddenUntilUpdated"} } )
    \ {DefaultMetadata}

ViewStores == { s \in [TaskIds -> StoredEntries] : s[1].parentTaskId = NoParent }

compareTasks_noTie(a, b, md) ==
    LET aMetadata == MetadataOrDefault(md, a.id)
        bMetadata == MetadataOrDefault(md, b.id)
        aVisible == shouldTaskBeVisible(a.lastJiraUpdate, aMetadata)
        bVisible == shouldTaskBeVisible(b.lastJiraUpdate, bMetadata)
    IN  IF aVisible /\ ~bVisible THEN -1
        ELSE IF ~aVisible /\ bVisible THEN 1
        ELSE IF /\ ~aVisible /\ ~bVisible
                /\ aMetadata.hiddenStatus = "hiddenUntilUpdated"
                /\ bMetadata.hiddenStatus = "hidden" THEN -1
        ELSE IF /\ ~aVisible /\ ~bVisible
                /\ aMetadata.hiddenStatus = "hidden"
                /\ bMetadata.hiddenStatus = "hiddenUntilUpdated" THEN 1
        ELSE 1

compareTasks_noPausedTier(a, b, md) ==
    LET aMetadata == MetadataOrDefault(md, a.id)
        bMetadata == MetadataOrDefault(md, b.id)
        aVisible == shouldTaskBeVisible(a.lastJiraUpdate, aMetadata)
        bVisible == shouldTaskBeVisible(b.lastJiraUpdate, bMetadata)
    IN  IF aVisible /\ ~bVisible THEN -1
        ELSE IF ~aVisible /\ bVisible THEN 1
        ELSE 0

\* the comparator of sortTasksByPriority: (a, b) => ...
compareTasks(a, b, md) ==
    LET aMetadata == MetadataOrDefault(md, a.id)
        bMetadata == MetadataOrDefault(md, b.id)
        aVisible == shouldTaskBeVisible(a.lastJiraUpdate, aMetadata)
        bVisible == shouldTaskBeVisible(b.lastJiraUpdate, bMetadata)
    IN  IF aVisible /\ ~bVisible THEN -1
        ELSE IF ~aVisible /\ bVisible THEN 1
        ELSE IF /\ ~aVisible /\ ~bVisible
                /\ aMetadata.hiddenStatus = "hiddenUntilUpdated"
                /\ bMetadata.hiddenStatus = "hidden" THEN -1
        ELSE IF /\ ~aVisible /\ ~bVisible
                /\ aMetadata.hiddenStatus = "hidden"
                /\ bMetadata.hiddenStatus = "hiddenUntilUpdated" THEN 1
        ELSE 0

\* Array.prototype.sort is stable: an element moves before those that compare
\* greater, never before one that compares equal
RECURSIVE InsertSorted(_, _, _)
InsertSorted(sorted, x, md) ==
    IF Len(sorted) = 0 THEN <<x>>
    ELSE IF compareTasks(sorted[Len(sorted)], x, md) > 0
         THEN InsertSorted(SubSeq(sorted, 1, Len(sorted) - 1), x, md)
              \o <<sorted[Len(sorted)]>>
         ELSE sorted \o <<x>>

\* tasks.sort((a, b) => ...)
RECURSIVE sortTasksByPriority(_, _)
sortTasksByPriority(list, md) ==
    IF Len(list) = 0 THEN <<>>
    ELSE InsertSorted(sortTasksByPriority(SubSeq(list, 1, Len(list) - 1), md),
                      list[Len(list)], md)

effectiveHiddenStatus_stored(task, taskMetadata) == taskMetadata.hiddenStatus

\* isVisible ? 'visible' : taskMetadata.hiddenStatus
effectiveHiddenStatus(task, taskMetadata) ==
    IF shouldTaskBeVisible(task.lastJiraUpdate, taskMetadata)
    THEN "visible" ELSE taskMetadata.hiddenStatus

\* { ...childTask, ...childMetadata, hiddenStatus: childEffectiveHiddenStatus }
WithMetadata(task, md) ==
    LET taskMetadata == MetadataOrDefault(md, task.id)
    IN  [id |-> task.id, status |-> task.status, priority |-> task.priority,
         issueType |-> task.issueType, isInSprint |-> task.isInSprint,
         lastJiraUpdate |-> task.lastJiraUpdate,
         parentTaskId |-> taskMetadata.parentTaskId,
         hiddenUntilUpdatedDate |-> taskMetadata.hiddenUntilUpdatedDate,
         hiddenStatus |-> effectiveHiddenStatus(task, taskMetadata)]

\* the child tasks of a task, sorted
childTasksOf(tasks, md, task) ==
    LET IsChild(childTask) == MetadataOrDefault(md, childTask.id).parentTaskId = task.id
        children == SelectSeq(tasks, IsChild)
    IN  sortTasksByPriority([j \in DOMAIN children |-> WithMetadata(children[j], md)], md)

getTasksWithMetadata(tasks, md) ==
    LET processedTasks ==
            [i \in DOMAIN tasks |->
                LET p == WithMetadata(tasks[i], md)
                IN  [id |-> p.id, status |-> p.status, priority |-> p.priority,
                     issueType |-> p.issueType, isInSprint |-> p.isInSprint,
                     lastJiraUpdate |-> p.lastJiraUpdate,
                     parentTaskId |-> p.parentTaskId,
                     hiddenUntilUpdatedDate |-> p.hiddenUntilUpdatedDate,
                     hiddenStatus |-> p.hiddenStatus,
                     childTasks |-> childTasksOf(tasks, md, tasks[i])]]
    IN  sortTasksByPriority(processedTasks, md)

getRootTasksWithMetadata(tasks, md) ==
    LET allProcessedTasks == getTasksWithMetadata(tasks, md)
        IsRoot(task) == MetadataOrDefault(md, task.id).parentTaskId = NoParent
    IN  sortTasksByPriority(SelectSeq(allProcessedTasks, IsRoot), md)

\* what one render of the dashboard computes
RenderView(tasks, md, isMounted) ==
    [rendered |-> TRUE, mounted |-> isMounted,
     all |-> getTasksWithMetadata(tasks, md),
     roots |-> getRootTasksWithMetadata(tasks, md)]

ViewInit ==
    /\ branchName = RandomBranchName
    /\ taskKey = Unset
    /\ ServerIdle
    /\ ReviewIdle
    /\ PollIdle
    /\ PRIdle
    /\ MoreIdle
    /\ storage \in ViewStores
    /\ metadata = [t \in TaskIds |-> Absent]
    /\ lastJiraUpdate = [t \in TaskIds |-> NoDate]
    /\ browserClock = 0
    /\ visible = [t \in TaskIds |-> TRUE]
    /\ dropEvent = NoDrop
    /\ taskList \in TaskLists
    /\ view = NoView

\* the first render: useState({}) holds no metadata yet
RenderDashboard ==
    /\ ~view.rendered
    /\ view' = RenderView(taskList, metadata, FALSE)
    /\ UNCHANGED <<storage, metadata, lastJiraUpdate, browserClock, visible, dropEvent,
                   taskList>>
    /\ UNCHANGED <<keyVars, serverVars, reviewVars, pollVars, prVars, moreVars>>

\* useEffect(() => setMetadata(getAllJiraMetadata()), []) and the render it causes
MountHook ==
    /\ view.rendered /\ ~view.mounted
    /\ metadata' = getAllJiraMetadata(storage)
    /\ view' = RenderView(taskList, metadata', TRUE)
    /\ UNCHANGED <<storage, lastJiraUpdate, browserClock, visible, dropEvent, taskList>>
    /\ UNCHANGED <<keyVars, serverVars, reviewVars, pollVars, prVars, moreVars>>

ViewNext == RenderDashboard \/ MountHook

SpecView == ViewInit /\ [][ViewNext]_vars

-----------------------------------------------------------------------------
(* utils: the rank tables, and the ordering of the rendered lists *)

\* getStatusPriority: switch (status.toLowerCase())
getStatusPriority(status) ==
    LET s == toLowerCase(status)
    IN  IF s = <<"i","n"," ","p","r","o","g","r","e","s","s">> THEN 1
        ELSE IF s = <<"r","e","a","d","y"," ","f","o","r"," ","p","r","o","d">> THEN 2
        ELSE IF s = <<"o","p","e","n">> \/ s = <<"t","o","d","o">> THEN 3
        ELSE IF s = <<"q","a">> THEN 4
        ELSE IF s = <<"r","e","v","i","e","w">> THEN 5
        ELSE IF s = <<"o","n"," ","h","o","l","d">> THEN 6
        ELSE IF s = <<"d","o","n","e">> THEN 7
        ELSE IF s = <<"r","e","j","e","c","t","e","d">> THEN 8
        ELSE 9

\* getIssueTypePriority: switch (issueType.toLowerCase())
getIssueTypePriority(issueType) ==
    LET s == toLowerCase(issueType)
    IN  IF s = <<"b","u","g">> THEN 1
        ELSE IF s = <<"d","e","v","b","u","g">> THEN 2
        ELSE IF s = <<"s","t","o","r","y">> THEN 3
        ELSE IF s = <<"t","a","s","k">> THEN 4
        ELSE IF s = <<"s","u","b","-","t","a","s","k">> THEN 5
        ELSE IF s = <<"e","p","i","c">> THEN 6
        ELSE 7

\* getPriorityValue: switch (priority.toLowerCase())
getPriorityValue(priority) ==
    LET s == toLowerCase(priority)
    IN  IF s = <<"b","l","o","c","k","e","r">> THEN 1
        ELSE IF s = <<"c","r","i","t","i","c","a","l">> THEN 2
        ELSE IF s = <<"u","r","g","e","n","t">> THEN 3
        ELSE IF s = <<"m","a","j","o","r">> THEN 4
        ELSE IF s = <<"h","i","g","h">> THEN 5
        ELSE IF s = <<"m","i","n","o","r">> THEN 6
        ELSE IF s = <<"l","o","w">> THEN 7
        ELSE IF s = <<"t","r","i","v","i","a","l">> THEN 8
        ELSE 9

\* the root list and every child list of the last render
ViewLists ==
    {view.roots} \cup { view.all[i].childTasks : i \in DOMAIN view.all }

\* the position of a task in the list the hook was given
InputPosition(item) == CHOOSE i \in DOMAIN taskList : taskList[i].id = item.id

\* 0: effectively visible, 1: paused (hidden until updated), 2: hidden
VisibilityTier(item) ==
    LET md == MetadataOrDefault(metadata, item.id)
    IN  IF shouldTaskBeVisible(item.lastJiraUpdate, md) THEN 0
        ELSE IF md.hiddenStatus = "hiddenUntilUpdated" THEN 1
        ELSE 2

\* the two tasks are equal on every ordering key
SameKeys(a, b) ==
    /\ VisibilityTier(a) = VisibilityTier(b)
    /\ a.isInSprint = b.isInSprint
    /\ getStatusPriority(a.status) = getStatusPriority(b.status)
    /\ getPriorityValue(a.priority) = getPriorityValue(b.priority)
    /\ getIssueTypePriority(a.issueType) = getIssueTypePriority(b.issueType)

\* C12: in the root list and in every child list, two tasks that are equal on
\* every ordering key are in the order in which the hook was given them.
C12_SortStability ==
    \A list \in ViewLists : \A i, j \in DOMAIN list :
        (i < j /\ SameKeys(list[i], list[j]))
            => InputPosition(list[i]) < InputPosition(list[j])

\* a list the sort has reordered that holds two tasks equal on every key
C12_Witness ==
    \E list \in ViewLists :
        /\ \E i, j \in DOMAIN list : i < j /\ SameKeys(list[i], list[j])
        /\ \E i, j \in DOMAIN list :
                i < j /\ InputPosition(list[i]) > InputPosition(list[j])

\* C16: in the root list and in every child list every effectively visible
\* task precedes every task that is not visible, and among those every
\* hiddenUntilUpdated task precedes every hidden task.
C16_VisibilityTiersOrdered ==
    \A list \in ViewLists : \A i, j \in DOMAIN list :
        i < j => VisibilityTier(list[i]) <= VisibilityTier(list[j])

\* a list with a visible, a paused and a hidden task that were given with the
\* hidden task first and the visible task last
C16_Witness ==
    \E list \in ViewLists :
        /\ { VisibilityTier(list[i]) : i \in DOMAIN list } = {0, 1, 2}
        /\ \A i, j \in DOMAIN list :
                VisibilityTier(list[i]) < VisibilityTier(list[j])
                    => InputPosition(list[i]) > InputPosition(list[j])

\* C17: among tasks of the same visibility tier, every task in a sprint
\* precedes every task that is not in a sprint.
C17_SprintKeyOrdered ==
    \A list \in ViewLists : \A i, j \in DOMAIN list :
        (i < j /\ VisibilityTier(list[i]) = VisibilityTier(list[j]))
            => ~(~list[i].isInSprint /\ list[j].isInSprint)

\* a is not after b by status rank, then priority rank, then issue-type rank
RankOrdered(a, b) ==
    \/ getStatusPriority(a.status) < getStatusPriority(b.status)
    \/ /\ getStatusPriority(a.status) = getStatusPriority(b.status)
       /\ \/ getPriorityValue(a.priority) < getPriorityValue(b.priority)
          \/ /\ getPriorityValue(a.priority) = getPriorityValue(b.priority)
             /\ getIssueTypePriority(a.issueType) <= getIssueTypePriority(b.issueType)

\* C18: in the root list and in every child list, tasks of the same visibility
\* tier are ordered by status rank, then by priority rank, then by issue-type
\* rank, with the ranks of the tables.
C18_RankTableOrdered ==
    /\ getStatusPriority(StatusQA) = 4 /\ getStatusPriority(StatusDone) = 7
    /\ getPriorityValue(PriorityHigh) = 5 /\ getPriorityValue(PriorityLow) = 7
    /\ getIssueTypePriority(TypeBug) = 1 /\ getIssueTypePriority(TypeTask) = 4
    /\ \A list \in ViewLists : \A i, j \in DOMAIN list :
            (i < j /\ VisibilityTier(list[i]) = VisibilityTier(list[j]))
                => RankOrdered(list[i], list[j])

\* every task and child task the last render produced
ViewItems ==
    { view.all[i] : i \in DOMAIN view.all }
    \cup UNION { { view.all[i].childTasks[j] : j \in DOMAIN view.all[i].childTasks }
                 : i \in DOMAIN view.all }

\* C19: every task and child task of getTasksWithMetadata has hiddenStatus
\* visible when the task is to be shown according to its stored metadata
\* (stored visible; or hidden until updated with no update time, no hiding
\* time, or an update later than the hiding), and the stored hiddenStatus
\* otherwise; the metadata the hook holds stays what was loaded from the store.
C19_EffectiveHiddenStatus ==
    /\ \A item \in ViewItems :
        LET md == MetadataOrDefault(metadata, item.id)
            shown == \/ md.hiddenStatus \notin {"hidden", "hiddenUntilUpdated"}
                     \/ /\ md.hiddenStatus = "hiddenUntilUpdated"
                        /\ \/ ~item.lastJiraUpdate.defined
                           \/ ~md.hiddenUntilUpdatedDate.defined
                           \/ item.lastJiraUpdate.wall - item.lastJiraUpdate.off
                                > md.hiddenUntilUpdatedDate.wall - md.hiddenUntilUpdatedDate.off
        IN  /\ shown => item.hiddenStatus = "visible"
            /\ ~shown => item.hiddenStatus = md.hiddenStatus
    /\ view.mounted => metadata = getAllJiraMetadata(storage)
    /\ ~view.mounted => metadata = [t \in TaskIds |-> Absent]

\* a child task shown as visible while its metadata says hiddenUntilUpdated,
\* beside a task shown as hiddenUntilUpdated and one shown as hidden
C19_Witness ==
    /\ view.mounted
    /\ \E p \in DOMAIN view.all : \E j \in DOMAIN view.all[p].childTasks :
            /\ view.all[p].childTasks[j].hiddenStatus = "visible"
            /\ metadata[view.all[p].childTasks[j].id].hiddenStatus = "hiddenUntilUpdated"
    /\ \E item \in ViewItems : item.hiddenStatus = "hiddenUntilUpdated"
    /\ \E item \in ViewItems : item.hiddenStatus = "hidden"

-----------------------------------------------------------------------------
(* Invalidation of the two server caches *)

PRCacheCleared == cachedPRs = <<>> /\ cachedPRsTimestamp = 0

ActiveReposCleared == cachedActiveRepos = <<>> /\ cachedActiveReposTimestamp = 0

\* C13: a request with refresh (clearPRCache) leaves the PR cache empty with
\* timestamp 0 and the active-repository cache empty with timestamp 0 in one
\* step, and every step that clears the PR cache leaves the active-repository
\* cache cleared too.
C13_InvalidationIsJoint ==
    [][ /\ \A c \in CallIds, selectedRepo \in Selections :
                Request(c, selectedRepo, TRUE) => (PRCacheCleared' /\ ActiveReposCleared')
        /\ (~PRCacheCleared /\ PRCacheCleared') => ActiveReposCleared' ]_vars

\* a refresh request has just cleared the caches (the first await is pending)
\* after an earlier request was served
C13_Witness ==
    \E c \in CallIds :
        /\ calls[c].pc = "rateLimit"
        /\ calls[c].refresh
        /\ serverClock > ServerStart
        /\ PRCacheCleared
        /\ ActiveReposCleared

-----------------------------------------------------------------------------
\* useJiraPolling and the two-phase load of the dashboard page.

PolledKeys == {"ABC-1", "ABC-12"}

\* a ticket in progress without a PR yet, and done with its PR
TicketVersions ==
    {[status |-> "In Progress", pullRequests |-> <<>>],
     [status |-> "Done", pullRequests |-> <<101>>]}

\* the local branches combineTasksWithLocalBranches keeps for one task
BranchAnswers == {<<>>, <<"feature/ABC-1_fix">>}

\* a task as GET /api/dashboard returns it: the record carries no localBranches
ServerTasks ==
    {[key |-> k, status |-> v.status, pullRequests |-> v.pullRequests,
      localBranches |-> None] : k \in PolledKeys, v \in TicketVersions}

\* data.tasks || [] of one response: the tickets of the filter, each key once
ServerResponses ==
    {<<>>}
    \cup {<<t>> : t \in ServerTasks}
    \cup {<<t, u>> : <<t, u>> \in {p \in ServerTasks \X ServerTasks : p[1].key # p[2].key}}

\* the ticket fields checkJiraChanges compares
TicketData(list) == [i \in DOMAIN list |-> [key |-> list[i].key, status |-> list[i].status]]

HasKey(list, key) == \E i \in DOMAIN list : list[i].key = key

hasChanges(prevTasks, newTasks) ==
    LET hasTaskChanges == TicketData(newTasks) # TicketData(prevTasks)
        hasCountChanges == Len(newTasks) # Len(prevTasks)
        hasNewTasks == \E i \in DOMAIN newTasks : ~HasKey(prevTasks, newTasks[i].key)
        hasRemovedTasks == \E i \in DOMAIN prevTasks : ~HasKey(newTasks, prevTasks[i].key)
    IN  hasTaskChanges \/ hasCountChanges \/ hasNewTasks \/ hasRemovedTasks

\* prevTasks.find(prevTask => prevTask.key === key): the index of the first
\* match, 0 for undefined
FindTask(prevTasks, key) ==
    LET found == {i \in DOMAIN prevTasks : prevTasks[i].key = key}
    IN  IF found = {} THEN 0
        ELSE CHOOSE i \in found : \A j \in found : i <= j

mergedTasks_freshOnly(prevTasks, newTasks) == newTasks

mergedTasks(prevTasks, newTasks) ==
    [i \in DOMAIN newTasks |->
        LET newTask == newTasks[i]
            existingTask == FindTask(prevTasks, newTask.key)
        IN  IF existingTask # 0 /\ prevTasks[existingTask].localBranches # None
            THEN [newTask EXCEPT !.localBranches = prevTasks[existingTask].localBranches]
            ELSE newTask]

PollInit ==
    /\ branchName = RandomBranchName
    /\ taskKey = Unset
    /\ MetaIdle
    /\ ServerIdle
    /\ PageIdle

\* loadData: phase 1 answers, the tasks are shown and phase 2 is requested
loadData(fetchedTasks) ==
    /\ loading
    /\ polledTasks' = fetchedTasks
    /\ loading' = FALSE
    /\ localBranchesRequest' = [pending |-> TRUE, tasks |-> fetchedTasks]
    /\ UNCHANGED <<jiraHasChanges, keyVars, metaVars, serverVars, reviewVars, listVars, prVars, moreVars>>

\* loadData: phase 1 fails
loadDataFails ==
    /\ loading
    /\ loading' = FALSE
    /\ UNCHANGED <<polledTasks, jiraHasChanges, localBranchesRequest,
                   keyVars, metaVars, serverVars, reviewVars, listVars, prVars, moreVars>>

\* loadLocalBranches: phase 2 answers with the tasks it was sent, each with its branches
loadLocalBranchesAnswer(answer) ==
    /\ localBranchesRequest.pending
    /\ polledTasks' = [i \in DOMAIN localBranchesRequest.tasks |->
                          LET localBranches == answer[localBranchesRequest.tasks[i].key]
                          IN  [localBranchesRequest.tasks[i] EXCEPT
                                  !.localBranches = IF Len(localBranches) > 0
                                                    THEN localBranches ELSE None]]
    /\ localBranchesRequest' = [localBranchesRequest EXCEPT !.pending = FALSE]
    /\ UNCHANGED <<jiraHasChanges, loading, keyVars, metaVars, serverVars, reviewVars, listVars, prVars, moreVars>>

\* loadLocalBranches: phase 2 fails, the tasks stay as they are
loadLocalBranchesFails ==
    /\ localBranchesRequest.pending
    /\ localBranchesRequest' = [localBranchesRequest EXCEPT !.pending = FALSE]
    /\ UNCHANGED <<polledTasks, jiraHasChanges, loading,
                   keyVars, metaVars, serverVars, reviewVars, listVars, prVars, moreVars>>

\* checkJiraChanges: one tick of the 30 s interval whose request answered
checkJiraChanges(newTasks) ==
    /\ ~loading
    /\ polledTasks' = mergedTasks(polledTasks, newTasks)
    /\ jiraHasChanges' = (jiraHasChanges \/ hasChanges(polledTasks, newTasks))
    /\ UNCHANGED <<loading, localBranchesRequest,
                   keyVars, metaVars, serverVars, reviewVars, listVars, prVars, moreVars>>

\* handleRefresh: the refresh button replaces the tasks
handleRefresh(dataTasks) ==
    /\ ~loading
    /\ polledTasks' = dataTasks
    /\ jiraHasChanges' = FALSE
    /\ UNCHANGED <<loading, localBranchesRequest,
                   keyVars, metaVars, serverVars, reviewVars, listVars, prVars, moreVars>>

PollNext ==
    \/ \E fetchedTasks \in ServerResponses : loadData(fetchedTasks)
    \/ loadDataFails
    \/ \E answer \in [PolledKeys -> BranchAnswers] : loadLocalBranchesAnswer(answer)
    \/ loadLocalBranchesFails
    \/ \E newTasks \in ServerResponses : checkJiraChanges(newTasks)
    \/ \E dataTasks \in ServerResponses : handleRefresh(dataTasks)

SpecPolling == PollInit /\ [][PollNext]_vars

\* C14: when a poll result is merged into the task list, the list after the
\* merge is the fresh result (same keys, same order, ticket fields and
\* pullRequests of the fresh result), and every task whose key was in the
\* list before with localBranches keeps exactly those localBranches.
C14_PollingMergeKeepsLocalBranches ==
    [][\A newTasks \in ServerResponses :
          checkJiraChanges(newTasks) =>
              /\ Len(polledTasks') = Len(newTasks)
              /\ \A i \in DOMAIN newTasks :
                    /\ polledTasks'[i].key = newTasks[i].key
                    /\ polledTasks'[i].status = newTasks[i].status
                    /\ polledTasks'[i].pullRequests = newTasks[i].pullRequests
                    /\ \A j \in DOMAIN polledTasks :
                          (/\ polledTasks[j].key = newTasks[i].key
                           /\ polledTasks[j].localBranches # None)
                          => polledTasks'[i].localBranches = polledTasks[j].localBranches]_vars

\* a task shows the branches phase 2 found together with a status and a PR
\* that phase 2 was not sent: a later poll brought them
C14_Witness ==
    /\ ~loading
    /\ ~localBranchesRequest.pending
    /\ \E i \in DOMAIN polledTasks, j \in DOMAIN localBranchesRequest.tasks :
          /\ polledTasks[i].key = localBranchesRequest.tasks[j].key
          /\ polledTasks[i].localBranches = <<"feature/ABC-1_fix">>
          /\ polledTasks[i].status = "Done"
          /\ polledTasks[i].pullRequests = <<101>>
          /\ localBranchesRequest.tasks[j].status = "In Progress"
          /\ localBranchesRequest.tasks[j].pullRequests = <<>>


-----------------------------------------------------------------------------
\* The two overlay stores and the hooks that mirror them.

DefaultPRMetadata == [present |-> TRUE, hidden |-> FALSE, localGitStatus |-> "undefined"]

getAllPRMetadata(store) == store

getPRMetadata(store, prId) ==
    LET allMetadata == getAllPRMetadata(store)
    IN  IF allMetadata[prId].present THEN allMetadata[prId] ELSE DefaultPRMetadata

savePRMetadata(store, prId, md) ==
    [getAllPRMetadata(store) EXCEPT ![prId] = md]

updatePRMetadata(store, prId, updates) ==
    savePRMetadata(store, prId, Merge(getPRMetadata(store, prId), updates))

\* usePRMetadata: setMetadata(prev => ...)
setPRMetadata(prev, prId, updates) ==
    LET existingMetadata == IF prev[prId].present THEN prev[prId] ELSE DefaultPRMetadata
    IN  [prev EXCEPT ![prId] = Merge(existingMetadata, updates)]

\* task.pullRequests of a card: card 1 shows PR 101, card 2 shows PR 102
PullRequestsOf(card) == IF card = 1 THEN {101} ELSE {102}

\* the tasks whose cards are used
OverlayIds == {1, 2}

\* updates the cards send: drop and detach, hide until updated and show, the
\* toggle of the child section
TaskUpdates ==
    {[parentTaskId |-> p] : p \in {NoParent, 1}}
    \cup {[hiddenStatus |-> "hiddenUntilUpdated", hiddenUntilUpdatedDate |-> toISOString(0)],
          [hiddenStatus |-> "visible", hiddenUntilUpdatedDate |-> NoDate]}
    \cup {[childTasksExpanded |-> e] : e \in {"true", "false"}}

PRUpdates ==
    {[hidden |-> h] : h \in BOOLEAN} \cup {[localGitStatus |-> "dirty"]}

\* an entry written before hiddenStatus existed
LegacyEntry == [DefaultMetadata EXCEPT !.hiddenStatus = ""]

\* what earlier sessions left in localStorage['jira-task-metadata']
OverlayStores ==
    {[t \in TaskIds |-> Absent],
     [[t \in TaskIds |-> Absent] EXCEPT ![2] = LegacyEntry]}

\* what earlier sessions left in localStorage['pull-request-metadata']
PRStores ==
    {[p \in PRIds |-> AbsentPR],
     [[p \in PRIds |-> AbsentPR] EXCEPT
         ![102] = [present |-> TRUE, hidden |-> TRUE, localGitStatus |-> "clean"]]}

\* the page after the hooks have loaded their store
OverlayInit ==
    /\ branchName = RandomBranchName
    /\ taskKey = Unset
    /\ ServerIdle
    /\ ReviewIdle
    /\ ListIdle
    /\ PollIdle
    /\ MoreIdle
    /\ storage \in OverlayStores
    /\ metadata = getAllJiraMetadata(storage)
    /\ lastJiraUpdate = [t \in TaskIds |-> NoDate]
    /\ browserClock = 0
    /\ visible = Render(metadata, lastJiraUpdate)
    /\ dropEvent = NoDrop
    /\ prStorage \in PRStores
    /\ prMetadata = [card \in PRCards |-> getAllPRMetadata(prStorage)]

\* useJiraMetadata.updateMetadata: the store first, then the hook state
updateMetadata(taskId, updates) ==
    /\ storage' = updateJiraTaskMetadata(storage, taskId, updates)
    /\ metadata' = setMetadata(metadata, taskId, updates)
    /\ UNCHANGED <<lastJiraUpdate, browserClock, dropEvent>>
    /\ Rerender
    /\ UNCHANGED <<keyVars, serverVars, pageVars>>

\* usePRMetadata.updatePRMetadataState of one card, for a PR the card shows:
\* the store first, then the hook state of that card
updatePRMetadataState(card, prId, updates) ==
    /\ prId \in PullRequestsOf(card)
    /\ prStorage' = updatePRMetadata(prStorage, prId, updates)
    /\ prMetadata' = [prMetadata EXCEPT ![card] = setPRMetadata(@, prId, updates)]
    /\ UNCHANGED <<keyVars, metaVars, serverVars, reviewVars, listVars, pollVars, moreVars>>

OverlayNext ==
    \/ \E taskId \in OverlayIds, updates \in TaskUpdates : updateMetadata(taskId, updates)
    \/ \E card \in PRCards, prId \in PRIds, updates \in PRUpdates :
          updatePRMetadataState(card, prId, updates)

SpecOverlay == OverlayInit /\ [][OverlayNext]_vars

\* the fields of an entry, without the marker of its presence
FieldsOf(entry) == DOMAIN entry \ {"present"}

\* JSON.stringify keeps no field whose value is undefined
IsUndefined(f, value) ==
    CASE f = "parentTaskId" -> value = NoParent
      [] f = "hiddenUntilUpdatedDate" -> value = NoDate
      [] f \in {"childTasksExpanded", "localGitStatus"} -> value = "undefined"
      [] OTHER -> FALSE

StoredFields(entry) == {f \in FieldsOf(entry) : ~IsUndefined(f, entry[f])}

\* the hook state holds every entry of the store, equal on the fields stored
MirrorsStore(hookState, store) ==
    \A id \in DOMAIN store :
        store[id].present =>
            /\ hookState[id].present
            /\ \A f \in StoredFields(store[id]) : hookState[id][f] = store[id][f]

\* the entry of id after the update is the entry before it (or the default)
\* with the fields of updates replaced, and no other entry has changed
MergedInto(before, after, current, id, updates) ==
    /\ after[id].present
    /\ \A f \in FieldsOf(current) :
          after[id][f] = IF f \in DOMAIN updates THEN updates[f] ELSE current[f]
    /\ \A other \in (DOMAIN before) \ {id} : after[other] = before[other]

-----------------------------------------------------------------------------
\* The rate-limited call that finds the PR cache empty.

\* C20: a call that checkGitHubRateLimit reports as rate-limited and that
\* finds cachedPRs empty goes on to fetchPullRequests, once; what the fetch
\* returns becomes the cache and the PR set of the call; when the fetch fails
\* the PR set of the call is empty; and the call then returns every ticket
\* fetchJiraTasks delivered, joined with that PR set.
C20_RateLimitedEmptyCache ==
    [][\A c \in CallIds :
          /\ (calls[c].pc = "rateLimit" /\ Len(cachedPRs) = 0 /\ RateLimitReturn(c, TRUE))
             => /\ calls'[c].pc = "fetchPRs"
                /\ calls'[c].isRateLimited
                /\ UNCHANGED <<cachedPRs, cachedPRsTimestamp>>
          /\ \A got \in SUBSET PullIds :
                (calls[c].pc = "fetchPRs" /\ calls[c].isRateLimited /\ FetchPRsReturn(c, got))
                => LET result == fetchPullRequests(githubToken, calls[c].selectedRepo,
                                                   calls[c].repos, got)
                   IN  /\ cachedPRs' = result
                       /\ calls'[c].allPRs = result
                       /\ calls'[c].pc = "fetchJira"
          /\ (calls[c].pc = "fetchPRs" /\ calls[c].isRateLimited /\ FetchPRsFails(c))
             => /\ calls'[c].allPRs = <<>>
                /\ cachedPRs' = <<>>
                /\ calls'[c].pc = "fetchJira"
          /\ \A jiraTasks \in JiraResults :
                (/\ calls[c].pc = "fetchJira" /\ calls[c].isRateLimited /\ calls[c].fetched
                 /\ JiraReturn(c, jiraTasks))
                => /\ response'.delivered
                   /\ Len(response'.tasks) = Len(jiraTasks)
                   /\ \A i \in DOMAIN jiraTasks :
                         /\ response'.tasks[i].key = jiraTasks[i].key
                         /\ response'.tasks[i].pullRequests
                                = linkedPRsOf(calls[c].allPRs, jiraTasks[i])]_vars

\* a rate-limited call with a token found the cache empty, its fetch brought
\* nothing, and it has returned the tickets without PRs
C20_Witness ==
    /\ githubToken
    /\ response.delivered
    /\ response.isRateLimited
    /\ response.fetched
    /\ response.usedPRs = <<>>
    /\ cachedPRs = <<>>
    /\ Len(response.tasks) > 0
    /\ \A i \in DOMAIN response.tasks : response.tasks[i].pullRequests = <<>>

-----------------------------------------------------------------------------
\* jiraService.fetchJiraTasks: the JQL variants and their pages.

\* jqlQueries.length
NumQueries == 6

\* the most issues one variant finds
MaxIssues == 3

\* maxResults, scaled down from 100
PageSize == 2

\* what Jira holds for one variant: total issues, all tasks, all subtasks, or
\* the second one a subtask
Upstreams == [total : 0..MaxIssues, kind : {"tasks", "subtasks", "mixed"}]

\* the issue at position n of the answer to variant query
IssueAt(query, upstream, n) ==
    [query |-> query, n |-> n,
     subtask |-> (upstream.kind = "subtasks" \/ (upstream.kind = "mixed" /\ n = 2))]

\* data.issues of the page that starts at startAt
PageIssues(query, upstream, startAt) ==
    LET last == IF startAt + PageSize < upstream.total THEN startAt + PageSize
                ELSE upstream.total
    IN  [i \in 1..(last - startAt) |-> IssueAt(query, upstream, startAt + i)]

\* .filter(!isSubtask).map(...): the tasks of the issues
TasksOfIssues(allIssues) ==
    LET NotSubtask(issue) == ~issue.subtask
        kept == SelectSeq(allIssues, NotSubtask)
    IN  [i \in DOMAIN kept |-> [query |-> kept[i].query, n |-> kept[i].n]]

JiraInit ==
    /\ branchName = RandomBranchName
    /\ taskKey = Unset
    /\ MetaIdle
    /\ ServerIdle
    /\ PageIdle

\* fetchJiraTasks is called: without credentials it returns [] at once
fetchJiraTasks(credentials) ==
    /\ jiraFetch.pc = "idle"
    /\ jiraFetch' = IF credentials
                    THEN [jiraFetch EXCEPT !.pc = "page", !.query = 1]
                    ELSE [jiraFetch EXCEPT !.pc = "done", !.returnedAt = "noCredentials"]
    /\ UNCHANGED <<keyVars, metaVars, serverVars, reviewVars, listVars, pollVars, prVars,
                   timers, gitRepo>>

\* the exception of a page ends the variant: the next one starts with no issues
nextQuery_keepsIssues(f) ==
    IF f.query < NumQueries
    THEN [f EXCEPT !.query = @ + 1, !.startAt = 0]
    ELSE [f EXCEPT !.pc = "done", !.result = <<>>, !.returnedAt = "allFailed"]

\* catch: continue with the next query, or return [] after the last one
nextQuery(f) ==
    IF f.query < NumQueries
    THEN [f EXCEPT !.query = @ + 1, !.startAt = 0, !.allIssues = <<>>]
    ELSE [f EXCEPT !.pc = "done", !.allIssues = <<>>, !.result = <<>>,
                   !.returnedAt = "allFailed"]

\* one page request of the while loop answers
JiraPageReturn(ok, upstream) ==
    LET f == jiraFetch
        issues == PageIssues(f.query, upstream, f.startAt)
        allIssues == f.allIssues \o issues
        hasMore == ~(Len(issues) < PageSize \/ f.startAt + PageSize >= upstream.total)
    IN  /\ f.pc = "page"
        /\ f.startAt = 0 \/ upstream = f.upstream
        /\ jiraFetch' =
              IF ~ok THEN nextQuery(f)
              ELSE IF hasMore
              THEN [f EXCEPT !.upstream = upstream, !.allIssues = allIssues,
                             !.startAt = @ + PageSize]
              ELSE [f EXCEPT !.pc = "done", !.upstream = upstream, !.allIssues = allIssues,
                             !.result = TasksOfIssues(allIssues), !.returnedAt = "query"]
        /\ UNCHANGED <<keyVars, metaVars, serverVars, reviewVars, listVars, pollVars, prVars,
                       timers, gitRepo>>

JiraNext ==
    \/ \E credentials \in BOOLEAN : fetchJiraTasks(credentials)
    \/ \E ok \in BOOLEAN, upstream \in Upstreams : JiraPageReturn(ok, upstream)

SpecJira == JiraInit /\ [][JiraNext]_vars

\* the tasks Jira holds for a variant
TasksOfVariant(query, upstream) ==
    TasksOfIssues([n \in 1..upstream.total |-> IssueAt(query, upstream, n)])

\* C21: the variants are tried in their order, each from its first page; what
\* fetchJiraTasks returns is the tasks of the variant whose pages all answered,
\* with nothing of a variant that failed; the result is empty exactly when the
\* credentials are missing, every variant failed, or that variant holds no
\* issue that is not a subtask.
C21_TicketQueryFallback ==
    /\ jiraFetch.pc = "page" => jiraFetch.query \in 1..NumQueries
    /\ jiraFetch.pc = "page" =>
          jiraFetch.allIssues =
              [n \in 1..jiraFetch.startAt |-> IssueAt(jiraFetch.query, jiraFetch.upstream, n)]
    /\ jiraFetch.pc = "done" =>
          /\ jiraFetch.returnedAt = "query"
                => jiraFetch.result = TasksOfVariant(jiraFetch.query, jiraFetch.upstream)
          /\ jiraFetch.returnedAt = "allFailed" => jiraFetch.query = NumQueries
          /\ jiraFetch.result = <<>>
                <=> \/ jiraFetch.returnedAt = "noCredentials"
                    \/ jiraFetch.returnedAt = "allFailed"
                    \/ /\ jiraFetch.returnedAt = "query"
                       /\ TasksOfVariant(jiraFetch.query, jiraFetch.upstream) = <<>>

\* the first two variants failed and the third answered in two pages, the
\* second issue a subtask: the two tasks of the third variant are returned
C21_Witness ==
    /\ jiraFetch.pc = "done"
    /\ jiraFetch.returnedAt = "query"
    /\ jiraFetch.query = 3
    /\ jiraFetch.upstream = [total |-> 3, kind |-> "mixed"]
    /\ Len(jiraFetch.result) = 2

-----------------------------------------------------------------------------
\* fetchPullRequests when the requests of some repositories fail.

\* how the request of one repository ends
RequestOutcomes == {"ok", "notOk", "exception"}

\* fetchPRsFromRepo: a response that is not ok returns [], an exception is
\* caught and returns []
fetchPRsFromRepoOutcome(repoFullName, got, outcome) ==
    IF outcome = "ok" THEN fetchPRsFromRepo(repoFullName, got) ELSE <<>>

\* Promise.all rejects with the first failed request
fetchPullRequestsOutcomes_rejects(hasToken, repoFullName, activeRepos, got, outcomes) ==
    IF ~hasToken \/ \E i \in DOMAIN outcomes : outcomes[i] # "ok" THEN <<>>
    ELSE fetchPullRequests(hasToken, repoFullName, activeRepos, got)

\* fetchPullRequests(repoFullName) with the outcome of each request it makes
fetchPullRequestsOutcomes(hasToken, repoFullName, activeRepos, got, outcomes) ==
    IF ~hasToken THEN <<>>
    ELSE IF repoFullName # None
    THEN fetchPRsFromRepoOutcome(repoFullName, got, outcomes[1])
    ELSE Flatten([i \in DOMAIN activeRepos |->
                     fetchPRsFromRepoOutcome(activeRepos[i], got, outcomes[i])])

\* the requests fetchPullRequests makes for the call
RequestsOf(call) ==
    IF ~githubToken THEN 0
    ELSE IF call.selectedRepo # None THEN 1
    ELSE Len(call.repos)

\* fetchPullRequests resolves after each of its requests ended in its own way
FetchPRsSettle(c, got, outcomes) ==
    LET call == calls[c]
        allPRs == fetchPullRequestsOutcomes(githubToken, call.selectedRepo, call.repos, got,
                                            outcomes)
    IN  /\ call.pc = "fetchPRs"
        /\ Len(outcomes) = RequestsOf(call)
        /\ cachedPRs' = allPRs
        /\ cachedPRsTimestamp' = call.now
        /\ calls' = [calls EXCEPT ![c] = [call EXCEPT !.pc = "fetchJira", !.allPRs = allPRs,
                                                      !.outcomes = outcomes]]
        /\ UNCHANGED <<githubToken, serverClock, cachedActiveRepos, cachedActiveReposTimestamp,
                       response, localRepos, tasksWithBranches>>
        /\ UNCHANGED <<keyVars, metaVars, pageVars>>

OutcomeLists == UNION { [1..n -> RequestOutcomes] : n \in 0..Len(whitelistedRepos) }

FanOutNext ==
    \/ \E c \in CallIds, selectedRepo \in Selections, refresh \in BOOLEAN :
            Request(c, selectedRepo, refresh)
    \/ \E c \in CallIds, isRateLimited \in BOOLEAN : RateLimitReturn(c, isRateLimited)
    \/ \E c \in CallIds, got \in SUBSET PullIds, outcomes \in OutcomeLists :
            FetchPRsSettle(c, got, outcomes)
    \/ \E c \in CallIds, jiraTasks \in JiraResults : JiraReturn(c, jiraTasks)

SpecFanOut == CacheInit /\ [][FanOutNext]_vars

\* the PRs of the list that are listed under the repository
OfRepository(prs, repoFullName) ==
    LET Listed(pr) == pr.repository = repoFullName
    IN  SelectSeq(prs, Listed)

\* C22: when an unfiltered fetch covers the active repositories and the
\* requests of some of them fail (response not ok, or exception), the result of
\* fetchPullRequests still holds the PRs of every repository whose request
\* answered, and nothing for the ones that failed.
C22_RepoFailureIsolated ==
    [][\A c \in CallIds, got \in SUBSET PullIds, outcomes \in OutcomeLists :
          ( /\ calls[c].pc = "fetchPRs"
            /\ githubToken
            /\ calls[c].selectedRepo = None
            /\ FetchPRsSettle(c, got, outcomes) )
          => \A i \in DOMAIN calls[c].repos :
                OfRepository(calls'[c].allPRs, calls[c].repos[i])
                    = IF outcomes[i] = "ok" THEN fetchPRsFromRepo(calls[c].repos[i], got)
                      ELSE <<>>]_vars

\* of the three active repositories the first failed with an exception, and the
\* two PRs of the second are in the result
C22_Witness ==
    /\ calls[1].pc = "fetchJira"
    /\ calls[1].selectedRepo = None
    /\ calls[1].repos = whitelistedRepos
    /\ calls[1].outcomes = <<"exception", "ok", "ok">>
    /\ Len(calls[1].allPRs) = 2
    /\ \A i \in DOMAIN calls[1].allPRs : calls[1].allPRs[i].repository = RepoWA

-----------------------------------------------------------------------------
\* The intervals of useJiraPolling and useReviewInbox on the dashboard page.

\* the 30 seconds of both setInterval calls, in ticks of the page clock
PollInterval == 3

\* the ticks a page is watched
MaxPageTicks == 7

\* the requests of one kind in flight
MaxInFlight == 2

\* newPRs.length of an answer of /api/review-inbox
InboxCounts == 0..1

TimersInit ==
    /\ branchName = RandomBranchName
    /\ taskKey = Unset
    /\ MetaIdle
    /\ ServerIdle
    /\ PageIdle

\* Dashboard mounts with loading = true: useReviewInbox sets its interval and
\* makes its initial fetch, useJiraPolling sets none
mountDashboard ==
    /\ timers.pc = "idle"
    /\ timers' = [timers EXCEPT !.pc = "loading",
                                !.reviewSetAt = timers.now,
                                !.reviewNext = timers.now + PollInterval,
                                !.reviewFetches = 1]
    /\ UNCHANGED <<keyVars, metaVars, serverVars, reviewVars, listVars, pollVars, prVars,
                   jiraFetch, gitRepo>>

\* setLoading(false): the effect of useJiraPolling runs again and sets the interval
finishLoading ==
    /\ timers.pc = "loading"
    /\ timers' = [timers EXCEPT !.pc = "running",
                                !.jiraSetAt = timers.now,
                                !.jiraNext = timers.now + PollInterval]
    /\ UNCHANGED <<keyVars, metaVars, serverVars, reviewVars, listVars, pollVars, prVars,
                   jiraFetch, gitRepo>>

\* an interval is due
JiraDue == timers.pc = "running" /\ timers.jiraNext = timers.now
ReviewDue == timers.pc # "idle" /\ timers.reviewNext = timers.now

\* the page clock advances; a due interval fires first
PageTick ==
    /\ timers.pc # "idle"
    /\ timers.now < MaxPageTicks
    /\ ~JiraDue /\ ~ReviewDue
    /\ timers' = [timers EXCEPT !.now = @ + 1]
    /\ UNCHANGED <<keyVars, metaVars, serverVars, reviewVars, listVars, pollVars, prVars,
                   jiraFetch, gitRepo>>

\* setInterval(checkJiraChanges, 30000) fires
jiraIntervalFires ==
    /\ JiraDue
    /\ timers' = [timers EXCEPT !.jiraNext = @ + PollInterval, !.jiraChecks = @ + 1]
    /\ UNCHANGED <<keyVars, metaVars, serverVars, reviewVars, listVars, pollVars, prVars,
                   jiraFetch, gitRepo>>

\* the answer of a background check arrives: setTasks, setLastJiraCheck
jiraCheckReturns ==
    /\ timers.jiraChecks > 0
    /\ timers' = [timers EXCEPT !.jiraChecks = @ - 1]
    /\ UNCHANGED <<keyVars, metaVars, serverVars, reviewVars, listVars, pollVars, prVars,
                   jiraFetch, gitRepo>>

\* the interval of useReviewInbox fires: fetchReviewPRs()
reviewIntervalFires ==
    /\ ReviewDue
    /\ timers' = [timers EXCEPT !.reviewNext = @ + PollInterval, !.reviewFetches = @ + 1]
    /\ UNCHANGED <<keyVars, metaVars, serverVars, reviewVars, listVars, pollVars, prVars,
                   jiraFetch, gitRepo>>

\* the user refreshes the review inbox: refresh() awaits fetchReviewPRs()
refreshReviewPRs ==
    /\ timers.pc # "idle"
    /\ timers.reviewFetches < MaxInFlight
    /\ timers' = [timers EXCEPT !.reviewFetches = @ + 1]
    /\ UNCHANGED <<keyVars, metaVars, serverVars, reviewVars, listVars, pollVars, prVars,
                   jiraFetch, gitRepo>>

\* fetchReviewPRs gets its answer: setLastPRCount(newPRs.length). fetchReviewPRs
\* is a callback of [lastPRCount] and both effects depend on it: a new count
\* runs the cleanup (clearInterval), sets a new interval and fetches again
fetchReviewPRsReturns(count) ==
    /\ timers.reviewFetches > 0
    /\ timers' = IF count = timers.lastPRCount
                 THEN [timers EXCEPT !.reviewFetches = @ - 1]
                 ELSE [timers EXCEPT !.lastPRCount = count,
                                     !.reviewFetches = (@ - 1) + 1,
                                     !.reviewSetAt = timers.now,
                                     !.reviewNext = timers.now + PollInterval]
    /\ UNCHANGED <<keyVars, metaVars, serverVars, reviewVars, listVars, pollVars, prVars,
                   jiraFetch, gitRepo>>

\* Dashboard.handleRefresh starts: setRefreshing(true), GET /api/dashboard?refresh=
handleRefreshStarts ==
    /\ timers.pc = "running"
    /\ ~timers.refreshing
    /\ timers' = [timers EXCEPT !.refreshing = TRUE]
    /\ UNCHANGED <<keyVars, metaVars, serverVars, reviewVars, listVars, pollVars, prVars,
                   jiraFetch, gitRepo>>

\* its answer (or its failure): setTasks, setJiraHasChanges(false), setRefreshing(false)
handleRefreshReturns ==
    /\ timers.refreshing
    /\ timers' = [timers EXCEPT !.refreshing = FALSE]
    /\ UNCHANGED <<keyVars, metaVars, serverVars, reviewVars, listVars, pollVars, prVars,
                   jiraFetch, gitRepo>>

TimersNext ==
    \/ mountDashboard
    \/ finishLoading
    \/ PageTick
    \/ jiraIntervalFires
    \/ jiraCheckReturns
    \/ reviewIntervalFires
    \/ refreshReviewPRs
    \/ \E count \in InboxCounts : fetchReviewPRsReturns(count)
    \/ handleRefreshStarts
    \/ handleRefreshReturns

SpecTimers == TimersInit /\ [][TimersNext]_vars

\* the interval set at setAt is next due a whole number of periods later, and
\* not later than one period from now
OnSchedule(setAt, next) ==
    /\ (next - setAt) % PollInterval = 0
    /\ next - timers.now \in 0..PollInterval

\* C23: after loading, the ticket poll and the review-inbox poll each fire every
\* 30 seconds counted from the moment the page set them, and no refresh and no
\* answer of a poll restarts, delays or cancels either.
C23_TimersIndependent ==
    timers.pc = "running" =>
        /\ timers.jiraSetAt <= timers.now
        /\ OnSchedule(timers.jiraSetAt, timers.jiraNext)
        /\ OnSchedule(0, timers.reviewNext)

-----------------------------------------------------------------------------
\* The expansion flag of the child section across a reload of the page.

ExpansionInit ==
    /\ branchName = RandomBranchName
    /\ taskKey = Unset
    /\ MetaIdle
    /\ ServerIdle
    /\ PageIdle

\* what the card of the task reads as task.childTasksExpanded
RenderedChildTasksExpanded(taskId) == MetadataOrDefault(metadata, taskId).childTasksExpanded

\* handleToggleChildTasks: { childTasksExpanded: !task.childTasksExpanded }
handleToggleChildTasks(taskId) ==
    LET updates == [childTasksExpanded |->
                       IF RenderedChildTasksExpanded(taskId) = "true" THEN "false" ELSE "true"]
    IN  updateMetadata(taskId, updates)

\* the page is loaded again: useJiraMetadata reads the store
ReloadPage ==
    /\ metadata' = getAllJiraMetadata(storage)
    /\ UNCHANGED <<storage, lastJiraUpdate, browserClock, dropEvent>>
    /\ Rerender
    /\ UNCHANGED <<keyVars, serverVars, pageVars>>

ExpansionNext ==
    \/ \E t \in WatchedIds : HandleHideTask(t)
    \/ \E t \in WatchedIds : HandleShowTask(t)
    \/ \E d \in WatchedIds, t \in WatchedIds : HandleDrop(d, t)
    \/ \E t \in WatchedIds : handleToggleChildTasks(t)
    \/ ReloadPage

SpecExpansion == ExpansionInit /\ [][ExpansionNext]_vars

\* C24: the child section of every task reads as expanded until the user toggles
\* it (only the toggle stores the flag), also after another interaction created
\* the task's entry and the page was loaded again; the section of the pull
\* requests goes by the same code.
C24_ExpansionDefaultsTrue ==
    \A t \in TaskIds :
        storage[t].childTasksExpanded = "undefined"
            => RenderedChildTasksExpanded(t) = "true"

-----------------------------------------------------------------------------
\* The hidden status and its date in the store.

\* toggleTaskHidden(taskId)
toggleTaskHidden(store, taskId) ==
    LET currentMetadata == getJiraTaskMetadata(store, taskId)
        newHiddenStatus == IF currentMetadata.hiddenStatus = "visible" THEN "hidden"
                           ELSE "visible"
    IN  updateJiraTaskMetadata(store, taskId,
                               [hiddenStatus |-> newHiddenStatus,
                                hiddenUntilUpdatedDate |-> NoDate])

HiddenInit ==
    /\ branchName = RandomBranchName
    /\ taskKey = Unset
    /\ MetaIdle
    /\ ServerIdle
    /\ PageIdle

\* a call of one of the service functions writes the store; the state of the
\* hook is not told
CallHideTask(taskId) ==
    /\ storage' = hideTask(storage, taskId)
    /\ UNCHANGED <<metadata, lastJiraUpdate, browserClock, visible, dropEvent>>
    /\ UNCHANGED <<keyVars, serverVars, pageVars>>

CallHideTaskUntilUpdated(taskId) ==
    /\ storage' = hideTaskUntilUpdated(storage, taskId, browserClock)
    /\ UNCHANGED <<metadata, lastJiraUpdate, browserClock, visible, dropEvent>>
    /\ UNCHANGED <<keyVars, serverVars, pageVars>>

CallShowTask(taskId) ==
    /\ storage' = showTask(storage, taskId)
    /\ UNCHANGED <<metadata, lastJiraUpdate, browserClock, visible, dropEvent>>
    /\ UNCHANGED <<keyVars, serverVars, pageVars>>

CallToggleTaskHidden(taskId) ==
    /\ storage' = toggleTaskHidden(storage, taskId)
    /\ UNCHANGED <<metadata, lastJiraUpdate, browserClock, visible, dropEvent>>
    /\ UNCHANGED <<keyVars, serverVars, pageVars>>

HiddenNext ==
    \/ \E t \in WatchedIds : CallHideTask(t)
    \/ \E t \in WatchedIds : CallHideTaskUntilUpdated(t)
    \/ \E t \in WatchedIds : CallShowTask(t)
    \/ \E t \in WatchedIds : CallToggleTaskHidden(t)
    \/ \E t \in WatchedIds : HandleHideUntilUpdated(t)
    \/ BrowserTick

SpecHidden == HiddenInit /\ [][HiddenNext]_vars

\* C25: after every call of hideTask, hideTaskUntilUpdated, showTask or
\* toggleTaskHidden the stored entry of a task has a hiddenUntilUpdatedDate
\* exactly when its hiddenStatus is hiddenUntilUpdated; hideTaskUntilUpdated
\* stores the time of its call, and the date stays that one until the next call
\* on the task.
C25_HiddenSinceInvariant ==
    [][\A t \in WatchedIds :
          LET entry == storage'[t]
              hidesUntilUpdated == CallHideTaskUntilUpdated(t) \/ HandleHideUntilUpdated(t)
          IN  /\ entry.present =>
                    (entry.hiddenUntilUpdatedDate # NoDate
                        <=> entry.hiddenStatus = "hiddenUntilUpdated")
              /\ hidesUntilUpdated =>
                    /\ entry.hiddenStatus = "hiddenUntilUpdated"
                    /\ entry.hiddenUntilUpdatedDate = toISOString(browserClock)
              /\ (~hidesUntilUpdated /\ entry.hiddenStatus = "hiddenUntilUpdated")
                    => entry = storage[t]]_vars

\* one task is hidden for good and holds no date, the other was hidden until
\* updated a minute ago and holds the date of that call
C25_Witness ==
    /\ storage[1].hiddenStatus = "hidden"
    /\ storage[1].hiddenUntilUpdatedDate = NoDate
    /\ storage[2].hiddenStatus = "hiddenUntilUpdated"
    /\ storage[2].hiddenUntilUpdatedDate = toISOString(Minute)
    /\ browserClock = 2 * Minute

-----------------------------------------------------------------------------
\* api/local-git: deleteBranch on one clone.

\* the names a clone can hold, and the names deleteBranch is asked for
LocalBranchNames == {"main", "master", "feature"}
DeleteNames == {"main", "feature", "gone"}

\* the clones: the local branches, the checked-out branch ("HEAD" when detached),
\* origin/HEAD ("" when unset), the branches of origin, whether local changes
\* block a switch, and whether checkout may create a branch from its remote
GitRepos ==
    { r \in [pc : {"ready"}, branches : SUBSET LocalBranchNames,
             current : LocalBranchNames \cup {"HEAD"},
             originHead : {"", "main", "master"}, originBranches : SUBSET {"main", "master"},
             blocked : BOOLEAN, guess : BOOLEAN, result : {NoGitRepo.result}] :
        /\ r.current \in r.branches \cup {"HEAD"}
        /\ r.originHead \in r.originBranches \cup {""} }

\* getMainBranchName(repoPath)
getMainBranchName(repo) ==
    IF repo.originHead # "" THEN repo.originHead
    ELSE IF "master" \in repo.branches THEN "master"
    ELSE "main"

\* git checkout <branch>: a local branch, or one git creates from origin
CanCheckout(repo, branch) ==
    \/ branch = repo.current
    \/ /\ ~repo.blocked
       /\ branch \in repo.branches \/ (repo.guess /\ branch \in repo.originBranches)

\* git checkout -b <branch> origin/<branch>
CanCheckoutNew(repo, branch) ==
    /\ ~repo.blocked
    /\ branch \notin repo.branches
    /\ branch \in repo.originBranches

CheckedOut(repo, branch) ==
    [repo EXCEPT !.branches = @ \cup {branch}, !.current = branch]

\* the part of deleteBranch after the switch
DeleteExisting_noExistsCheck(repo, name) ==
    IF name \in repo.branches /\ name # repo.current
    THEN [repo EXCEPT !.branches = @ \ {name},
                      !.result = [branchName |-> name, success |-> TRUE,
                                  message |-> "Branch deleted successfully"]]
    ELSE [repo EXCEPT !.result = [branchName |-> name, success |-> FALSE,
                                  message |-> "Failed to delete branch"]]

\* git branch --list, then git branch -D <branchName>, which refuses the
\* checked-out branch
DeleteExisting(repo, name) ==
    IF name \notin repo.branches
    THEN [repo EXCEPT !.result = [branchName |-> name, success |-> TRUE,
                                  message |-> "Branch was already deleted"]]
    ELSE IF name # repo.current
    THEN [repo EXCEPT !.branches = @ \ {name},
                      !.result = [branchName |-> name, success |-> TRUE,
                                  message |-> "Branch deleted successfully"]]
    ELSE [repo EXCEPT !.result = [branchName |-> name, success |-> FALSE,
                                  message |-> "Failed to delete branch"]]

\* deleteBranch(repoPath, branchName): the clone it leaves, with its answer
DeleteBranchResult(repo, name) ==
    LET mainBranch == getMainBranchName(repo)
    IN  IF repo.current # name THEN DeleteExisting(repo, name)
        ELSE IF CanCheckout(repo, mainBranch)
        THEN DeleteExisting(CheckedOut(repo, mainBranch), name)
        ELSE IF CanCheckoutNew(repo, mainBranch)
        THEN DeleteExisting(CheckedOut(repo, mainBranch), name)
        ELSE [repo EXCEPT !.result = [branchName |-> name, success |-> FALSE,
                                      message |-> "Cannot delete branch you are currently on"]]

GitInit ==
    /\ branchName = RandomBranchName
    /\ taskKey = Unset
    /\ MetaIdle
    /\ ServerIdle
    /\ ReviewIdle /\ ListIdle /\ PollIdle /\ PRIdle
    /\ jiraFetch = NoJiraFetch
    /\ timers = NoTimers
    /\ gitRepo \in GitRepos

\* POST /api/local-git { action: 'delete' }
deleteBranch(name) ==
    /\ gitRepo.pc = "ready"
    /\ gitRepo' = DeleteBranchResult(gitRepo, name)
    /\ UNCHANGED <<keyVars, metaVars, serverVars, reviewVars, listVars, pollVars, prVars,
                   jiraFetch, timers>>

GitNext == \E name \in DeleteNames : deleteBranch(name)

SpecGit == GitInit /\ [][GitNext]_vars

\* C26: deleteBranch of a branch the clone does not hold answers success and
\* leaves the branches and the checkout as they were; deleteBranch of the
\* checked-out branch deletes only after the switch to the branch that
\* getMainBranchName detects (created from origin when the plain checkout
\* fails); after every successful deleteBranch the branch is gone and is not the
\* one checked out.
C26_DeleteBranchIdempotent ==
    [][\A name \in DeleteNames :
          deleteBranch(name) =>
             LET mainBranch == getMainBranchName(gitRepo)
                 success == gitRepo'.result.success
             IN  /\ name \notin gitRepo.branches =>
                        /\ success
                        /\ gitRepo'.branches = gitRepo.branches
                        /\ gitRepo'.current = gitRepo.current
                 /\ (name = gitRepo.current /\ name \in gitRepo'.branches) => ~success
                 /\ (name = gitRepo.current /\ success) =>
                        /\ gitRepo'.current = mainBranch
                        /\ mainBranch \in gitRepo'.branches
                 /\ success => (name \notin gitRepo'.branches /\ gitRepo'.current # name)
                 /\ gitRepo'.branches \ {mainBranch} = gitRepo.branches \ {mainBranch, name}
                    \/ ~success]_vars

\* deleteBranch of the feature branch, which the clone does not hold, answered
\* that it was already deleted, and main is still there and checked out
C26_Witness ==
    /\ gitRepo.pc = "ready"
    /\ ~gitRepo.guess
    /\ gitRepo.branches = {"main"}
    /\ gitRepo.current = "main"
    /\ gitRepo.originHead = "main"
    /\ gitRepo.result = [branchName |-> "feature", success |-> TRUE,
                         message |-> "Branch was already deleted"]

-----------------------------------------------------------------------------
\* The rendered tree: the root list and the child tasks under it.

\* stores whose parent links form no loop: a parent has a smaller id
TreeStores ==
    { s \in [TaskIds -> { [DefaultMetadata EXCEPT !.parentTaskId = p] :
                             p \in {NoParent} \cup TaskIds }] :
        \A t \in TaskIds : s[t].parentTaskId = NoParent \/ s[t].parentTaskId < t }

\* the fetched lists: any of the tasks, in the order of their ids
TreeLists ==
    { SelectSeq([i \in TaskIds |->
                    [id |-> i, status |-> StatusQA, priority |-> PriorityHigh,
                     issueType |-> TypeBug, isInSprint |-> TRUE,
                     lastJiraUpdate |-> Iso(0, 0)]],
                LAMBDA task : task.id \in fetched) : fetched \in SUBSET TaskIds }

TreeInit ==
    /\ branchName = RandomBranchName
    /\ taskKey = Unset
    /\ ServerIdle
    /\ ReviewIdle
    /\ PollIdle
    /\ PRIdle
    /\ MoreIdle
    /\ storage \in TreeStores
    /\ metadata = [t \in TaskIds |-> Absent]
    /\ lastJiraUpdate = [t \in TaskIds |-> NoDate]
    /\ browserClock = 0
    /\ visible = [t \in TaskIds |-> TRUE]
    /\ dropEvent = NoDrop
    /\ taskList \in TreeLists
    /\ view = NoView

SpecTree == TreeInit /\ [][ViewNext]_vars

\* how often the task is in the tree: as a root, or among the childTasks of a
\* root (a child task carries no childTasks of its own)
PlacesInTree(taskId) ==
    Cardinality({ i \in DOMAIN view.roots : view.roots[i].id = taskId })
    + Cardinality({ ij \in { <<i, j>> : i \in DOMAIN view.roots, j \in TaskIds } :
                       /\ ij[2] \in DOMAIN view.roots[ij[1]].childTasks
                       /\ view.roots[ij[1]].childTasks[ij[2]].id = taskId })

\* C27: with a store whose parent links form no loop, every task of the fetched
\* list is exactly once in the rendered tree, also a task whose parent is not in
\* the fetched list and a task two or more levels below a root.
C27_NoTaskLost ==
    view.mounted =>
        \A i \in DOMAIN taskList : PlacesInTree(taskList[i].id) = 1

-----------------------------------------------------------------------------
\* The PR cache after a fetch for one repository.

\* GET /api/dashboard over time while GitHub serves every pull request
NarrowNext ==
    \/ \E c \in CallIds, selectedRepo \in Selections, refresh \in BOOLEAN :
            Request(c, selectedRepo, refresh)
    \/ \E c \in CallIds, isRateLimited \in BOOLEAN : RateLimitReturn(c, isRateLimited)
    \/ \E c \in CallIds : FetchPRsReturn(c, PullIds)
    \/ \E c \in CallIds, jiraTasks \in JiraResults : JiraReturn(c, jiraTasks)
    \/ ServerTick

SpecNarrow == CacheInit /\ [][NarrowNext]_vars

\* the repositories of the pull requests GitHub serves
ReposWithPulls == { GitHubPulls[i].repo : i \in DOMAIN GitHubPulls }

\* C28: after calls with and without a repository filter, a call without a
\* filter (or with 'all') that is served from the cache uses the PRs of every
\* active repository that has any, never only those of the repository an
\* earlier filtered call fetched.
C28_FilteredFetchDoesNotNarrow ==
    ( /\ response.delivered
      /\ githubToken
      /\ ~response.fetched
      /\ ~IsRepoFilter(response.selectedRepo)
      /\ Len(response.usedPRs) > 0 )
    => \A repo \in ReposWithPulls :
          \E i \in DOMAIN response.usedPRs : response.usedPRs[i].repository = repo

-----------------------------------------------------------------------------
\* Two requests of GET /api/dashboard in flight at once.

RaceCallIds == {1, 2}

\* what GitHub serves at the time of a fetch
RaceServed == {PullIds, {101}}

RaceInit ==
    /\ MetaIdle
    /\ branchName = RandomBranchName
    /\ taskKey = Unset
    /\ githubToken = TRUE
    /\ serverClock = ServerStart
    /\ cachedPRs = <<>>
    /\ cachedPRsTimestamp = 0
    /\ cachedActiveRepos = <<>>
    /\ cachedActiveReposTimestamp = 0
    /\ calls = [c \in RaceCallIds |-> IdleCall]
    /\ response = NoResponse
    /\ localRepos = <<>>
    /\ tasksWithBranches = NoBranches
    /\ PageIdle

RaceNext ==
    \/ \E c \in RaceCallIds : Request(c, None, FALSE)
    \/ \E c \in RaceCallIds, isRateLimited \in BOOLEAN : RateLimitReturn(c, isRateLimited)
    \/ \E c \in RaceCallIds, got \in RaceServed : FetchPRsReturn(c, got)
    \/ \E c \in RaceCallIds : JiraReturn(c, JiraTickets)
    \/ ServerTick

SpecRace == RaceInit /\ [][RaceNext]_vars

\* the call fetched, and its fetch has resolved
HasFetched(c) == calls[c].pc = "fetchJira" /\ calls[c].fetched

\* C29: when two calls of getTasksWithPRs both fetch, then once both fetches
\* have resolved cachedPRsTimestamp is the later of the two start times and
\* cachedPRs is the result of the call that started later, in every
\* interleaving.
C29_LaterRefreshWins ==
    \A c1 \in RaceCallIds, c2 \in RaceCallIds :
        ( /\ c1 # c2
          /\ HasFetched(c1) /\ HasFetched(c2)
          /\ calls[c1].now <= calls[c2].now )
        => /\ cachedPRsTimestamp = calls[c2].now
           /\ calls[c1].now < calls[c2].now => cachedPRs = calls[c2].allPRs

-----------------------------------------------------------------------------
\* The local branches of the task list across polls, refreshes and phase 2.

\* C30: a task that has localBranches keeps them through every poll, every
\* refresh and a late answer of phase 2 while it stays in the list, and the
\* answer of phase 2 leaves the status and the pull requests of every task as
\* the list held them.
C30_LocalBranchesSurvive ==
    [][/\ \A i \in DOMAIN polledTasks, j \in DOMAIN polledTasks' :
             (/\ polledTasks[i].key = polledTasks'[j].key
              /\ polledTasks[i].localBranches # None)
             => polledTasks'[j].localBranches # None
       /\ \A answer \in [PolledKeys -> BranchAnswers] :
             (localBranchesRequest.pending /\ loadLocalBranchesAnswer(answer))
             => \A i \in DOMAIN polledTasks, j \in DOMAIN polledTasks' :
                   polledTasks[i].key = polledTasks'[j].key
                   => /\ polledTasks'[j].status = polledTasks[i].status
                      /\ polledTasks'[j].pullRequests = polledTasks[i].pullRequests]_vars

====
